---- MODULE Spec2Model ----
(***************************************************************************)
(* Cross-venue arbitrage bot: the execution coordinator                    *)
(* (trade_executor.rs), the position ledger (position_tracker.rs) and the  *)
(* settlement reconciler (settlement_checker.rs), sharing one ledger       *)
(* behind a tokio Mutex.                                                   *)
(*                                                                         *)
(* f64 quantities are modelled as exact rationals <<n, d>> (d > 0, lowest  *)
(* terms); a division by zero gives <<1, 0>>, <<-1, 0>> or <<0, 0>> for    *)
(* +inf, -inf and NaN.                                                     *)
(***************************************************************************)
EXTENDS Integers, Sequences, FiniteSets, TLC

\* ------------------------------------------------------------------ bounds
\* How many positions the ledger may hold before the model stops adding.
MaxPositions == 2
\* The last instant of the model's clock (Utc::now()).
MaxClock == 1
\* The longest event list handed to the matcher and to the scan.
MaxEvents == 2

\* ------------------------------------------------------- Option<T> values
None == [some |-> FALSE]
Some(x) == [some |-> TRUE, val |-> x]
IsSome(o) == o.some
IsNone(o) == ~o.some

\* ------------------------------------------------------------ f64 values
RECURSIVE Gcd(_, _)
Gcd(a, b) == IF b = 0 THEN a ELSE Gcd(b, a % b)
Abs(x) == IF x < 0 THEN -x ELSE x
Rat(n, d) ==
    LET s == IF d < 0 THEN -1 ELSE 1
        g == IF n = 0 /\ d = 0 THEN 1 ELSE Gcd(Abs(n), Abs(d))
    IN  <<(s * n) \div g, (s * d) \div g>>
RInt(k) == <<k, 1>>
RAdd(x, y) == Rat(x[1] * y[2] + y[1] * x[2], x[2] * y[2])
RSub(x, y) == Rat(x[1] * y[2] - y[1] * x[2], x[2] * y[2])
RMul(x, y) == Rat(x[1] * y[1], x[2] * y[2])
RDiv(x, y) == Rat(x[1] * y[2], x[2] * y[1])
RNeg(x) == <<-x[1], x[2]>>
RLess(x, y) == x[1] * y[2] < y[1] * x[2]
RZero == RInt(0)
ROne == RInt(1)

\* --------------------------------------------------------------- inputs
\* The venue-native event ids of the two matched events.
PmEventId == "pm-event"
KalshiEventId == "kalshi-event"
\* The notional passed to execute_arbitrage (main.rs trades $100).
Notionals == {RInt(100)}

\* ====================================================== position_tracker.rs
PositionStatus == {"Open", "Settled", "Won", "Lost"}

\* Position::new: every position starts Open with no settlement data.  The id
\* is "<platform>_<8 hex digits of a fresh uuid>"; uid stands for the uuid part.
\* (event_title and created_at are written once and never read by the code
\* modelled here; they are left out.)
PositionNew(uid, platform, event_id, outcome, amount, cost, price, order_id) ==
    [ id         |-> <<platform, uid>>,
      platform   |-> platform,
      event_id   |-> event_id,
      outcome    |-> outcome,
      amount     |-> amount,
      cost       |-> cost,
      price      |-> price,
      order_id   |-> order_id,
      status     |-> "Open",
      settled_at |-> None,
      payout     |-> None,
      profit     |-> None ]

\* A faulty profit of a won position: the payout is left out.
calculate_profit_if_won_without_payout(p) == RNeg(p.cost)

calculate_profit_if_won(p) == RSub(RMul(p.amount, ROne), p.cost)
calculate_profit_if_lost(p) == RNeg(p.cost)

\* A faulty add_position: the new position replaces the whole map.
add_position_replacing(ps, p) == [k \in {p.id} |-> p]

\* HashMap::insert keyed by the position's id.
add_position(ps, p) ==
    [k \in (DOMAIN ps) \cup {p.id} |-> IF k = p.id THEN p ELSE ps[k]]

\* A faulty get_open_positions: the status filter is missing.
get_open_positions_unfiltered(ps) == DOMAIN ps

\* A faulty get_open_positions: only one venue's positions pass the filter.
get_open_positions_one_venue(ps) ==
    {k \in DOMAIN ps : ps[k].status = "Open" /\ ps[k].platform = "polymarket"}

\* The ids of the positions whose status is Open.
get_open_positions(ps) == {k \in DOMAIN ps : ps[k].status = "Open"}

\* A faulty update_position_settlement: a position that did not win goes
\* back to Open.
update_position_settlement_reopens(ps, position_id, won, payout, t) ==
    IF position_id \in DOMAIN ps
    THEN LET p == ps[position_id]
             profit == IF won THEN calculate_profit_if_won(p)
                              ELSE calculate_profit_if_lost(p)
             q == [p EXCEPT !.status = IF won THEN "Won" ELSE "Open",
                            !.settled_at = Some(t),
                            !.payout = payout,
                            !.profit = Some(profit)]
         IN  [positions |-> [ps EXCEPT ![position_id] = q], ret |-> Some(profit)]
    ELSE [positions |-> ps, ret |-> None]

\* update_position_settlement: looks the id up and, when it is present,
\* overwrites status, settled_at, payout and profit; returns the new map and
\* Some(profit), or the map unchanged and None when the id is absent.
update_position_settlement(ps, position_id, won, payout, t) ==
    IF position_id \in DOMAIN ps
    THEN LET p == ps[position_id]
             profit == IF won THEN calculate_profit_if_won(p)
                              ELSE calculate_profit_if_lost(p)
             q == [p EXCEPT !.status = IF won THEN "Won" ELSE "Lost",
                            !.settled_at = Some(t),
                            !.payout = payout,
                            !.profit = Some(profit)]
         IN  [positions |-> [ps EXCEPT ![position_id] = q], ret |-> Some(profit)]
    ELSE [positions |-> ps, ret |-> None]

RECURSIVE SumProfit(_, _)
SumProfit(ps, ks) ==
    IF ks = {} THEN RZero
    ELSE LET k == CHOOSE x \in ks : TRUE
         IN  RAdd(ps[k].profit.val, SumProfit(ps, ks \ {k}))

RECURSIVE SumPayout(_, _)
SumPayout(ps, ks) ==
    IF ks = {} THEN RZero
    ELSE LET k == CHOOSE x \in ks : TRUE
         IN  RAdd(ps[k].payout.val, SumPayout(ps, ks \ {k}))

\* A faulty get_total_profit: the payouts are summed instead of the profits.
get_total_profit_of_payouts(ps) ==
    SumPayout(ps, {k \in DOMAIN ps : IsSome(ps[k].payout)})

\* get_total_profit: filter_map(|p| p.profit).sum()
get_total_profit(ps) == SumProfit(ps, {k \in DOMAIN ps : IsSome(ps[k].profit)})

CountStatus(ps, s) == Cardinality({k \in DOMAIN ps : ps[k].status = s})

get_statistics(ps) ==
    [ total_positions |-> Cardinality(DOMAIN ps),
      open_positions  |-> CountStatus(ps, "Open"),
      won_positions   |-> CountStatus(ps, "Won"),
      lost_positions  |-> CountStatus(ps, "Lost"),
      total_profit    |-> get_total_profit(ps) ]

\* ===================================================== arbitrage_detector.rs
\* Fees::default() and the threshold main.rs passes to the bot.
DefaultFees == [polymarket |-> Rat(1, 100), kalshi |-> Rat(1, 100)]
MinProfitThreshold == Rat(2, 100)

MarketPrices(yes, no, liquidity) == [yes |-> yes, no |-> no, liquidity |-> liquidity]

\* A faulty opportunity record: the fees are left out of net profit and ROI.
Opportunity_without_fees(strategy, kalshi_action, polymarket_action, cost, profit, total_fees) ==
    [ strategy          |-> strategy,
      kalshi_action     |-> kalshi_action,
      polymarket_action |-> polymarket_action,
      total_cost        |-> cost,
      gross_profit      |-> profit,
      fees              |-> total_fees,
      net_profit        |-> profit,
      roi_percent       |-> RMul(RDiv(profit, cost), RInt(100)) ]

Opportunity(strategy, kalshi_action, polymarket_action, cost, profit, total_fees) ==
    [ strategy          |-> strategy,
      kalshi_action     |-> kalshi_action,
      polymarket_action |-> polymarket_action,
      total_cost        |-> cost,
      gross_profit      |-> profit,
      fees              |-> total_fees,
      net_profit        |-> RSub(profit, total_fees),
      roi_percent       |-> RMul(RDiv(RSub(profit, total_fees), cost), RInt(100)) ]

\* The two records check_arbitrage can return, as the variants below build them.
Strategy1(fees, pm_prices, kalshi_prices) ==
    Opportunity("Buy Yes on Kalshi + Buy No on Polymarket",
                <<"BUY", "YES", kalshi_prices.yes>>, <<"BUY", "NO", pm_prices.no>>,
                RAdd(kalshi_prices.yes, pm_prices.no),
                RSub(ROne, RAdd(kalshi_prices.yes, pm_prices.no)),
                RAdd(fees.polymarket, fees.kalshi))
Strategy2(fees, pm_prices, kalshi_prices) ==
    Opportunity("Buy No on Kalshi + Buy Yes on Polymarket",
                <<"BUY", "NO", kalshi_prices.no>>, <<"BUY", "YES", pm_prices.yes>>,
                RAdd(kalshi_prices.no, pm_prices.yes),
                RSub(ROne, RAdd(kalshi_prices.no, pm_prices.yes)),
                RAdd(fees.polymarket, fees.kalshi))

\* A faulty check_arbitrage: of two strategies that clear the bar the more
\* profitable one is returned.
check_arbitrage_most_profitable(fees, min_profit_threshold, pm_prices, kalshi_prices) ==
    LET s1 == Strategy1(fees, pm_prices, kalshi_prices)
        s2 == Strategy2(fees, pm_prices, kalshi_prices)
        bar == RAdd(RAdd(fees.polymarket, fees.kalshi), min_profit_threshold)
        ok1 == RLess(bar, s1.gross_profit)
        ok2 == RLess(bar, s2.gross_profit)
    IN  IF ok1 /\ ok2
        THEN (IF RLess(s1.gross_profit, s2.gross_profit) THEN Some(s2) ELSE Some(s1))
        ELSE IF ok1 THEN Some(s1)
        ELSE IF ok2 THEN Some(s2)
        ELSE None

\* A faulty check_arbitrage: a gross profit equal to the bar is accepted.
check_arbitrage_at_the_bar(fees, min_profit_threshold, pm_prices, kalshi_prices) ==
    LET s1 == Strategy1(fees, pm_prices, kalshi_prices)
        s2 == Strategy2(fees, pm_prices, kalshi_prices)
        bar == RAdd(RAdd(fees.polymarket, fees.kalshi), min_profit_threshold)
    IN  IF ~RLess(s1.gross_profit, bar) THEN Some(s1)
        ELSE IF ~RLess(s2.gross_profit, bar) THEN Some(s2)
        ELSE None

\* check_arbitrage: Strategy 1 is tested first, then Strategy 2.
check_arbitrage(fees, min_profit_threshold, pm_prices, kalshi_prices) ==
    LET cost_strategy_1 == RAdd(kalshi_prices.yes, pm_prices.no)
        profit_strategy_1 == RSub(ROne, cost_strategy_1)
        cost_strategy_2 == RAdd(kalshi_prices.no, pm_prices.yes)
        profit_strategy_2 == RSub(ROne, cost_strategy_2)
        total_fees == RAdd(fees.polymarket, fees.kalshi)
        bar == RAdd(total_fees, min_profit_threshold)
    IN  IF RLess(bar, profit_strategy_1)
        THEN Some(Opportunity("Buy Yes on Kalshi + Buy No on Polymarket",
                              <<"BUY", "YES", kalshi_prices.yes>>,
                              <<"BUY", "NO", pm_prices.no>>,
                              cost_strategy_1, profit_strategy_1, total_fees))
        ELSE IF RLess(bar, profit_strategy_2)
        THEN Some(Opportunity("Buy No on Kalshi + Buy Yes on Polymarket",
                              <<"BUY", "NO", kalshi_prices.no>>,
                              <<"BUY", "YES", pm_prices.yes>>,
                              cost_strategy_2, profit_strategy_2, total_fees))
        ELSE None

\* Quote pairs <<polymarket, kalshi>> the scan hands to the detector: the
\* arbitrage scenario, its mirror image, and the efficient-market scenario.
QuotePairs ==
    { <<MarketPrices(Rat(59, 100), Rat(39, 100), RInt(1000)),
        MarketPrices(Rat(40, 100), Rat(58, 100), RInt(1000))>>,
      <<MarketPrices(Rat(39, 100), Rat(59, 100), RInt(1000)),
        MarketPrices(Rat(58, 100), Rat(40, 100), RInt(1000))>>,
      <<MarketPrices(Rat(51, 100), Rat(50, 100), RInt(1000)),
        MarketPrices(Rat(52, 100), Rat(49, 100), RInt(1000))>> }

\* The opportunities the scan returns and main.rs executes.
Opportunities ==
    { check_arbitrage(DefaultFees, MinProfitThreshold, q[1], q[2]).val :
        q \in { r \in QuotePairs :
                  IsSome(check_arbitrage(DefaultFees, MinProfitThreshold, r[1], r[2])) } }

\* ========================================================= event_matcher.rs
\* Text is a sequence of one-character strings.  The texts of the model are
\* written over letters, digits, the space and "?": they hold no "/", "-",
\* ",", ".", "$" or "%" and no month names.
Digits == { "0", "1", "2", "3", "4", "5", "6", "7", "8", "9" }
LowerLetters ==
    { "a", "b", "c", "d", "e", "f", "g", "h", "i", "j", "k", "l", "m",
      "n", "o", "p", "q", "r", "s", "t", "u", "v", "w", "x", "y", "z" }
\* char::to_lowercase on the upper-case letters the texts use
UpperToLower ==
    "A" :> "a" @@ "B" :> "b" @@ "C" :> "c" @@ "D" :> "d" @@ "E" :> "e" @@ "F" :> "f" @@
    "G" :> "g" @@ "H" :> "h" @@ "I" :> "i" @@ "J" :> "j" @@ "K" :> "k" @@ "L" :> "l" @@
    "M" :> "m" @@ "N" :> "n" @@ "O" :> "o" @@ "P" :> "p" @@ "Q" :> "q" @@ "R" :> "r" @@
    "S" :> "s" @@ "T" :> "t" @@ "U" :> "u" @@ "V" :> "v" @@ "W" :> "w" @@ "X" :> "x" @@
    "Y" :> "y" @@ "Z" :> "z"
UpperLetters == DOMAIN UpperToLower
Alphanumeric == Digits \cup LowerLetters \cup UpperLetters
Whitespace == {" "}
\* the regex class \w, whose complement delimits \b
WordChars == Alphanumeric \cup {"_"}

to_lowercase(text) ==
    [i \in 1..Len(text) |->
       IF text[i] \in UpperLetters THEN UpperToLower[text[i]] ELSE text[i]]

RECURSIVE SplitAcc(_, _, _, _)
\* The maximal runs of characters of text that lie outside seps, in order.
SplitAcc(text, seps, cur, acc) ==
    IF text = <<>> THEN (IF cur = <<>> THEN acc ELSE Append(acc, cur))
    ELSE IF Head(text) \in seps
    THEN SplitAcc(Tail(text), seps, <<>>, IF cur = <<>> THEN acc ELSE Append(acc, cur))
    ELSE SplitAcc(Tail(text), seps, Append(cur, Head(text)), acc)

\* str::split_whitespace
split_whitespace(text) == SplitAcc(text, Whitespace, <<>>, <<>>)

RECURSIVE JoinSeq(_, _)
\* [..].join(sep) on texts
JoinSeq(parts, sep) ==
    IF Len(parts) = 0 THEN <<>>
    ELSE IF Len(parts) = 1 THEN parts[1]
    ELSE parts[1] \o sep \o JoinSeq(Tail(parts), sep)

\* normalize_text: lower-case, keep alphanumerics and whitespace, collapse
\* whitespace runs to single spaces.
normalize_text(text) ==
    JoinSeq(split_whitespace(SelectSeq(to_lowercase(text),
                LAMBDA c : c \in Alphanumeric \cup Whitespace)), <<" ">>)

stop_words ==
    { <<"w", "i", "l", "l">>,
      <<"b", "e">>,
      <<"t", "h", "e">>,
      <<"a">>,
      <<"a", "n">>,
      <<"a", "n", "d">>,
      <<"o", "r">>,
      <<"b", "u", "t">>,
      <<"i", "n">>,
      <<"o", "n">>,
      <<"a", "t">>,
      <<"t", "o">>,
      <<"f", "o", "r">>,
      <<"o", "f">>,
      <<"w", "i", "t", "h">>,
      <<"b", "y">> }

\* extract_keywords: the normalized words longer than 2 that are no stop words.
extract_keywords(text) ==
    LET words == split_whitespace(normalize_text(text))
    IN  {words[i] : i \in {j \in 1..Len(words) :
                             Len(words[j]) > 2 /\ words[j] \notin stop_words}}

\* The maximal runs of \w characters of text: the stretches between two \b.
WordRuns(text) ==
    LET seps == {text[i] : i \in 1..Len(text)} \ WordChars
        runs == SplitAcc(text, seps, <<>>, <<>>)
    IN  {runs[i] : i \in 1..Len(runs)}
AllDigits(w) == \A i \in 1..Len(w) : w[i] \in Digits

\* extract_dates: what the five patterns capture.  Over texts without "/",
\* "-" and month names only \b\d{4}\b can match: the runs of exactly four
\* digits.  (The Vec the code returns is only tested for emptiness and for a
\* common element, so the set of captures stands for it.)
extract_dates(text) == {w \in WordRuns(text) : Len(w) = 4 /\ AllDigits(w)}

\* extract_numbers: what the three patterns capture.  Over texts without "$",
\* "%", "," and "." only \b\d{1,3}\b can match: the runs of one to three digits.
extract_numbers(text) == {w \in WordRuns(text) : Len(w) \in 1..3 /\ AllDigits(w)}

\* dates_match: both present and at most 86400 seconds apart.
dates_match(date1, date2) ==
    IF IsSome(date1) /\ IsSome(date2)
    THEN Abs(date1.val - date2.val) <= 86400
    ELSE FALSE

\* strsim::jaro_winkler (strsim 0.11).  JaroFlags is the matching loop of
\* jaro: each character of a, in order, takes the first unflagged equal
\* character of b within the search range.
RECURSIVE JaroFlags(_, _, _, _, _, _)
JaroFlags(a, b, search_range, i, a_flags, b_flags) ==
    IF i > Len(a) THEN [a_flags |-> a_flags, b_flags |-> b_flags]
    ELSE LET lo == IF i - search_range > 1 THEN i - search_range ELSE 1
             hi == IF i + search_range < Len(b) THEN i + search_range ELSE Len(b)
             free == {j \in lo..hi : b[j] = a[i] /\ ~b_flags[j]}
         IN  IF free = {} THEN JaroFlags(a, b, search_range, i + 1, a_flags, b_flags)
             ELSE LET j == CHOOSE x \in free : \A y \in free : x <= y
                  IN  JaroFlags(a, b, search_range, i + 1,
                                [a_flags EXCEPT ![i] = TRUE],
                                [b_flags EXCEPT ![j] = TRUE])

\* The flagged characters of text, in order.
Flagged(text, flags) ==
    LET keep == {i \in 1..Len(text) : flags[i]}
        nth(k) == CHOOSE i \in keep : Cardinality({j \in keep : j <= i}) = k
    IN  [k \in 1..Cardinality(keep) |-> text[nth(k)]]

\* strsim::jaro
jaro(a, b) ==
    IF Len(a) = 0 /\ Len(b) = 0 THEN ROne
    ELSE IF Len(a) = 0 \/ Len(b) = 0 THEN RZero
    ELSE LET longer == IF Len(a) > Len(b) THEN Len(a) ELSE Len(b)
             half == longer \div 2
             search_range == IF half > 0 THEN half - 1 ELSE 0
             f == JaroFlags(a, b, search_range, 1,
                            [i \in 1..Len(a) |-> FALSE], [j \in 1..Len(b) |-> FALSE])
             ma == Flagged(a, f.a_flags)
             mb == Flagged(b, f.b_flags)
             matches == Len(ma)
             transpositions == Cardinality({k \in 1..matches : ma[k] # mb[k]}) \div 2
         IN  IF matches = 0 THEN RZero
             ELSE RDiv(RAdd(RAdd(Rat(matches, Len(a)), Rat(matches, Len(b))),
                            Rat(matches - transpositions, matches)), RInt(3))

\* The length of the common prefix of a and b.
CommonPrefix(a, b) ==
    LET shorter == IF Len(a) < Len(b) THEN Len(a) ELSE Len(b)
    IN  Cardinality({n \in 1..shorter : \A i \in 1..n : a[i] = b[i]})

\* strsim::jaro_winkler: above 0.7 the similarity is raised by 0.1 per common
\* prefix character, at most four of them.
jaro_winkler(a, b) ==
    LET sim == jaro(a, b)
        prefix == CommonPrefix(a, b)
        prefix_length == IF prefix < 4 THEN prefix ELSE 4
    IN  IF RLess(Rat(7, 10), sim)
        THEN RAdd(sim, RMul(RMul(Rat(1, 10), RInt(prefix_length)), RSub(ROne, sim)))
        ELSE sim

\* Event, as far as the matcher and the scan read it (tags are never read).
Event(platform, event_id, title, description, resolution_date, category) ==
    [ platform        |-> platform,
      event_id        |-> event_id,
      title           |-> title,
      description     |-> description,
      resolution_date |-> resolution_date,
      category        |-> category ]

\* A faulty overlap: the common keywords as a share of the first event's.
keyword_overlap_of_first(keywords1, keywords2) ==
    IF keywords1 # {} /\ keywords2 # {}
    THEN Rat(Cardinality(keywords1 \cap keywords2), Cardinality(keywords1))
    ELSE RZero

\* keyword_overlap: |intersection| / |union|, 0.0 when either set is empty.
keyword_overlap(keywords1, keywords2) ==
    IF keywords1 # {} /\ keywords2 # {}
    THEN Rat(Cardinality(keywords1 \cap keywords2), Cardinality(keywords1 \cup keywords2))
    ELSE RZero

\* !set1.is_disjoint(&set2) when both lists are non-empty, false otherwise
\* (date_text_match and number_match).
captures_overlap(list1, list2) ==
    IF list1 # {} /\ list2 # {} THEN list1 \cap list2 # {} ELSE FALSE

\* calculate_similarity_with_confidence
calculate_similarity_with_confidence(event1, event2) ==
    LET title1 == normalize_text(event1.title)
        title2 == normalize_text(event2.title)
        text_similarity == jaro_winkler(title1, title2)
        overlap == keyword_overlap(extract_keywords(event1.title),
                                   extract_keywords(event2.title))
        date_match == dates_match(event1.resolution_date, event2.resolution_date)
        date_text_match ==
            captures_overlap(extract_dates(event1.title \o <<" ">> \o event1.description),
                             extract_dates(event2.title \o <<" ">> \o event2.description))
        date_match_final == date_match \/ date_text_match
        category_match ==
            IF IsSome(event1.category) /\ IsSome(event2.category)
            THEN to_lowercase(event1.category.val) = to_lowercase(event2.category.val)
            ELSE FALSE
        number_match == captures_overlap(extract_numbers(event1.title),
                                         extract_numbers(event2.title))
        overall_score ==
            RAdd(RAdd(RAdd(RAdd(RMul(text_similarity, Rat(4, 10)),
                                RMul(overlap, Rat(25, 100))),
                           IF date_match_final THEN Rat(15, 100) ELSE RZero),
                      IF category_match THEN Rat(1, 10) ELSE RZero),
                 IF number_match THEN Rat(1, 10) ELSE RZero)
    IN  [ text_similarity |-> text_similarity,
          date_match      |-> date_match_final,
          category_match  |-> category_match,
          keyword_overlap |-> overlap,
          number_match    |-> number_match,
          overall_score   |-> overall_score ]

calculate_similarity(event1, event2) ==
    calculate_similarity_with_confidence(event1, event2).overall_score

RECURSIVE SortedByScore(_)
\* matches.sort_by(|a, b| b.score.partial_cmp(&a.score)): the stable sort by
\* overall_score, highest first; equal scores keep their order.
SortedByScore(matches) ==
    IF matches = <<>> THEN <<>>
    ELSE LET n == Len(matches)
             front == SortedByScore(SubSeq(matches, 1, n - 1))
             x == matches[n]
             ahead == {i \in 1..Len(front) :
                         ~RLess(front[i][3].overall_score, x[3].overall_score)}
             k == Cardinality(ahead)
         IN  SubSeq(front, 1, k) \o <<x>> \o SubSeq(front, k + 1, Len(front))

\* The cross product in loop order: for pm_event { for kalshi_event { .. } }.
CrossProduct(polymarket_events, kalshi_events) ==
    LET m == Len(kalshi_events)
    IN  [k \in 1..(Len(polymarket_events) * m) |->
           LET pm_event == polymarket_events[((k - 1) \div m) + 1]
               kalshi_event == kalshi_events[((k - 1) % m) + 1]
           IN  <<pm_event, kalshi_event,
                 calculate_similarity_with_confidence(pm_event, kalshi_event)>>]

\* A faulty find_matches_with_confidence: a pair scoring exactly the
\* threshold is dropped.
find_matches_above_threshold(similarity_threshold, polymarket_events, kalshi_events) ==
    SortedByScore(SelectSeq(CrossProduct(polymarket_events, kalshi_events),
                            LAMBDA t : RLess(similarity_threshold, t[3].overall_score)))

\* find_matches_with_confidence: the pairs with overall_score >= threshold,
\* sorted by overall_score, highest first.
find_matches_with_confidence(similarity_threshold, polymarket_events, kalshi_events) ==
    SortedByScore(SelectSeq(CrossProduct(polymarket_events, kalshi_events),
                            LAMBDA t : ~RLess(t[3].overall_score, similarity_threshold)))

\* find_matches: the same list with the score in place of the confidence.
find_matches(similarity_threshold, polymarket_events, kalshi_events) ==
    LET matches == find_matches_with_confidence(similarity_threshold,
                                                polymarket_events, kalshi_events)
    IN  [i \in 1..Len(matches) |->
           <<matches[i][1], matches[i][2], matches[i][3].overall_score>>]

RECURSIVE BestOf(_, _, _, _)
\* The loop of find_best_match: a candidate replaces the best one so far
\* when its similarity is strictly greater.
BestOf(target_event, candidate_events, best_match, best_similarity) ==
    IF candidate_events = <<>>
    THEN [best_match |-> best_match, best_similarity |-> best_similarity]
    ELSE LET candidate == Head(candidate_events)
             similarity == calculate_similarity(target_event, candidate)
         IN  IF RLess(best_similarity, similarity)
             THEN BestOf(target_event, Tail(candidate_events),
                         Some(<<candidate, similarity>>), similarity)
             ELSE BestOf(target_event, Tail(candidate_events),
                         best_match, best_similarity)

\* find_best_match: best_similarity starts at 0.0 and best_match at None.
find_best_match(similarity_threshold, target_event, candidate_events) ==
    LET best == BestOf(target_event, candidate_events, None, RZero)
    IN  IF ~RLess(best.best_similarity, similarity_threshold)
        THEN best.best_match
        ELSE None

\* ================================================================== bot.rs
\* MarketFilters
MarketFilters(categories, max_hours_until_resolution, min_liquidity) ==
    [ categories                 |-> categories,
      max_hours_until_resolution |-> max_hours_until_resolution,
      min_liquidity              |-> min_liquidity ]

\* is_within_timeframe: between five minutes and max_hours_until_resolution
\* hours from now (in seconds); an event without a date is outside.
is_within_timeframe(filters, resolution_date, clock) ==
    IF IsSome(resolution_date)
    THEN LET time_until_resolution == resolution_date.val - clock
             max_time == filters.max_hours_until_resolution * 3600
             min_time == 5 * 60
         IN  time_until_resolution >= min_time /\ time_until_resolution <= max_time
    ELSE FALSE

\* str::contains
Contains(text, pat) ==
    \E i \in 0..(Len(text) - Len(pat)) : SubSeq(text, i + 1, i + Len(pat)) = pat

\* The keyword lists of matches_category.
crypto_keywords ==
    { <<"b", "i", "t", "c", "o", "i", "n">>,
      <<"b", "t", "c">>,
      <<"e", "t", "h", "e", "r", "e", "u", "m">>,
      <<"e", "t", "h">>,
      <<"c", "r", "y", "p", "t", "o">>,
      <<"c", "r", "y", "p", "t", "o", "c", "u", "r", "r", "e", "n", "c", "y">>,
      <<"p", "r", "i", "c", "e">>,
      <<"a", "b", "o", "v", "e">>,
      <<"b", "e", "l", "o", "w">>,
      <<"r", "e", "a", "c", "h">>,
      <<"h", "i", "t">>,
      <<"s", "u", "r", "p", "a", "s", "s">> }
\* The keyword lists of matches_category.
sports_keywords ==
    { <<"g", "a", "m", "e">>,
      <<"m", "a", "t", "c", "h">>,
      <<"t", "e", "a", "m">>,
      <<"p", "l", "a", "y", "e", "r">>,
      <<"s", "c", "o", "r", "e">>,
      <<"w", "i", "n">>,
      <<"l", "o", "s", "e">>,
      <<"n", "f", "l">>,
      <<"n", "b", "a">>,
      <<"m", "l", "b">>,
      <<"s", "o", "c", "c", "e", "r">>,
      <<"f", "o", "o", "t", "b", "a", "l", "l">>,
      <<"b", "a", "s", "k", "e", "t", "b", "a", "l", "l">> }

\* matches_category: no filter category, or the event's category contains
\* one, or the title and description contain a keyword of a filter category.
matches_category(filters, event) ==
    LET cats == {filters.categories[i] : i \in 1..Len(filters.categories)}
        event_category == IF IsSome(event.category)
                          THEN to_lowercase(event.category.val) ELSE <<>>
        text == to_lowercase(event.title) \o <<" ">> \o to_lowercase(event.description)
    IN  \/ filters.categories = <<>>
        \/ \E cat \in cats : Contains(event_category, to_lowercase(cat))
        \/ /\ <<"c", "r", "y", "p", "t", "o">> \in cats
           /\ \E kw \in crypto_keywords : Contains(text, kw)
        \/ /\ <<"s", "p", "o", "r", "t", "s">> \in cats
           /\ \E kw \in sports_keywords : Contains(text, kw)

\* filter_events
filter_events(filters, events, clock) ==
    SelectSeq(events, LAMBDA event :
        matches_category(filters, event)
        /\ is_within_timeframe(filters, event.resolution_date, clock))

\* The matched pairs of a scan, in the order the loop meets them.
scan_matches(filters, similarity_threshold, pm_events, kalshi_events, clock) ==
    LET pm_filtered == filter_events(filters, pm_events, clock)
        kalshi_filtered == filter_events(filters, kalshi_events, clock)
    IN  IF pm_filtered = <<>> \/ kalshi_filtered = <<>>
        THEN <<>>
        ELSE find_matches(similarity_threshold, pm_filtered, kalshi_filtered)

RECURSIVE ScanLoop(_, _, _, _, _, _)
\* The loop of scan_for_opportunities over the matches from the i-th on;
\* quotes[i] is what fetch_prices answered for the i-th match's two events.
ScanLoop(filters, min_profit_threshold, matches, quotes, i, opportunities) ==
    IF i > Len(matches) THEN opportunities
    ELSE LET pm_prices == quotes[i][1]
             kalshi_prices == quotes[i][2]
             opportunity == check_arbitrage(DefaultFees, min_profit_threshold,
                                            pm_prices, kalshi_prices)
         IN  IF \/ RLess(pm_prices.liquidity, filters.min_liquidity)
                \/ RLess(kalshi_prices.liquidity, filters.min_liquidity)
             THEN ScanLoop(filters, min_profit_threshold, matches, quotes, i + 1,
                           opportunities)
             ELSE IF IsSome(opportunity)
             THEN ScanLoop(filters, min_profit_threshold, matches, quotes, i + 1,
                           Append(opportunities,
                                  <<matches[i][1], matches[i][2], opportunity.val>>))
             ELSE ScanLoop(filters, min_profit_threshold, matches, quotes, i + 1,
                           opportunities)

\* scan_for_opportunities, from its matches on: matches is scan_matches of
\* the two event lists.
scan_for_opportunities(filters, min_profit_threshold, matches, quotes) ==
    ScanLoop(filters, min_profit_threshold, matches, quotes, 1, <<>>)

\* ============================================================== clients.rs
\* Result<T, anyhow::Error>
Ok(v) == [ok |-> TRUE, val |-> v]
Err(e) == [ok |-> FALSE, err |-> e]

\* place_order_via_blockchain is a stub behind a Result<Option<String>>
\* signature (its contract call is still a TODO), so its reply is any value
\* of that type.
PlacementReplies ==
    { Ok(Some("0xtx")), Ok(None), Err("Polymarket contract addresses required") }
\* place_order_via_clob always fails.
place_order_via_clob == Err("Polymarket CLOB API requires EIP-712 signature")
\* What the Kalshi order endpoint can answer.
KalshiReplies == {"rejected", "order_id", "no_order_id"}

\* PolymarketClient::place_order
PolymarketPlaceOrder(wallet_configured, blockchain) ==
    IF ~wallet_configured
    THEN Err("Polymarket wallet private key not configured")
    ELSE IF blockchain.ok /\ IsSome(blockchain.val) THEN Ok(blockchain.val)
    ELSE IF blockchain.ok
    THEN Err("Order placement failed - contract addresses may be missing")
    ELSE place_order_via_clob

\* KalshiClient::place_order: the order id is data["order"]["order_id"] when
\* the response carries it as a string, and None otherwise.
KalshiPlaceOrder(reply) ==
    CASE reply = "rejected"    -> Err("Kalshi order failed: 400 Bad Request - ")
      [] reply = "order_id"    -> Ok(Some("k-order"))
      [] reply = "no_order_id" -> Ok(None)

\* What a venue's settlement endpoint can reply to one query: the request
\* fails, the market is not settled yet, or it is resolved YES or NO.
SettlementReplies == {"failed", "unsettled", "yes", "no"}
\* A venue is "live" (each query may get any reply) or has settled for good
\* as "yes" or "no" (every query gets that reply).
VenueStates == {"live", "yes", "no"}
\* check_settlement: Err when the request fails, Ok(None) when the market is
\* not resolved, Ok(Some(outcome is YES)) when it is.
check_settlement(venue_state, reply) ==
    LET answer == IF venue_state = "live" THEN reply ELSE venue_state
    IN  CASE answer = "failed"    -> Err("Failed to check settlement")
          [] answer = "unsettled" -> Ok(None)
          [] answer = "yes"       -> Ok(Some(TRUE))
          [] answer = "no"        -> Ok(Some(FALSE))

\* ======================================================== trade_executor.rs
\* execute_polymarket_trade / execute_kalshi_trade: an Err of place_order is
\* returned as it is; an Ok carries place_order's Option<String> payload on
\* (the Result<Option<String>> that execute_arbitrage unwraps and flattens).
execute_polymarket_trade(placed) == IF placed.ok THEN Ok(placed.val) ELSE Err(placed.err)
execute_kalshi_trade(placed) == IF placed.ok THEN Ok(placed.val) ELSE Err(placed.err)

RECURSIVE Join(_, _)
Join(parts, sep) ==
    IF Len(parts) = 0 THEN ""
    ELSE IF Len(parts) = 1 THEN parts[1]
    ELSE parts[1] \o sep \o Join(Tail(parts), sep)

\* The error text of the failure branch: one "<Venue>: <error>" entry per
\* failed leg, Polymarket first, joined by "; ".
error_msg(pm_result, kalshi_result) ==
    LET e1 == IF pm_result.ok THEN <<>> ELSE <<"Polymarket: " \o pm_result.err>>
        e2 == IF kalshi_result.ok THEN <<>> ELSE <<"Kalshi: " \o kalshi_result.err>>
    IN  Join(e1 \o e2, "; ")

\* Result::ok().flatten()
OkFlatten(r) == IF r.ok THEN r.val ELSE None

TradeResult(success, pm_id, kalshi_id, error) ==
    [ success             |-> success,
      polymarket_order_id |-> pm_id,
      kalshi_order_id     |-> kalshi_id,
      error               |-> error ]

\* A faulty return: a failed leg's error is propagated to the caller.
execute_arbitrage_return_propagates(pm_result, kalshi_result) ==
    IF ~pm_result.ok THEN Err(pm_result.err)
    ELSE IF ~kalshi_result.ok THEN Err(kalshi_result.err)
    ELSE Ok(TradeResult(TRUE, pm_result.val, kalshi_result.val, None))

\* The value execute_arbitrage returns once both legs have completed.
execute_arbitrage_return(pm_result, kalshi_result) ==
    IF pm_result.ok /\ kalshi_result.ok
    THEN Ok(TradeResult(TRUE, pm_result.val, kalshi_result.val, None))
    ELSE Ok(TradeResult(FALSE, OkFlatten(pm_result), OkFlatten(kalshi_result),
                        Some(error_msg(pm_result, kalshi_result))))

\* A faulty join: the legs one after the other, only the Polymarket order
\* is issued when the call starts.
join_calls_one_at_a_time == << <<"polymarket", "place_order">> >>

\* The client methods tokio::join! invokes: each leg helper calls its client's
\* place_order, the Polymarket leg being polled first.
join_calls == << <<"polymarket", "place_order">>, <<"kalshi", "place_order">> >>

\* A faulty failure branch: the order of a failed leg is placed again.
failure_branch_retries(pm_result, kalshi_result) ==
    (IF pm_result.ok THEN <<>> ELSE << <<"polymarket", "place_order">> >>)
      \o (IF kalshi_result.ok THEN <<>> ELSE << <<"kalshi", "place_order">> >>)

\* A faulty failure branch: the leg that was filled is cancelled.
failure_branch_compensates(pm_result, kalshi_result) ==
    (IF pm_result.ok THEN << <<"polymarket", "cancel_order">> >> ELSE <<>>)
      \o (IF kalshi_result.ok THEN << <<"kalshi", "cancel_order">> >> ELSE <<>>)

\* The client methods the failure branch invokes: none; a filled leg is only
\* warned about.
failure_branch_calls(pm_result, kalshi_result) == <<>>

\* A faulty record of a leg: the side bought is lost, every position is
\* recorded as a YES position.
LegPosition_always_yes(uid, platform, event_id, action, amount, order_id) ==
    PositionNew(uid, platform, event_id, "YES",
                RDiv(amount, action[3]), RMul(amount, action[3]), action[3],
                order_id)

\* The position execute_arbitrage records for a leg with action
\* (action, outcome, price): amount / price shares at cost amount * price.
LegPosition(uid, platform, event_id, action, amount, order_id) ==
    PositionNew(uid, platform, event_id, action[2],
                RDiv(amount, action[3]), RMul(amount, action[3]), action[3],
                order_id)

\* A faulty success branch: the guard is given up between the two
\* add_position calls.
guard_dropped_between_positions == "free"

\* The tracker's guard between the two add_position calls: still the
\* call's, which neither awaits nor drops it in between.
guard_between_positions == "exec"

\* A faulty failure branch: a leg that was filled is recorded all the same.
failure_branch_records_filled(ps, pm_result, kalshi_result, args, uid) ==
    IF pm_result.ok
    THEN add_position(ps, LegPosition(uid, "polymarket", PmEventId,
                                      args.opportunity.polymarket_action,
                                      args.amount, pm_result.val))
    ELSE IF kalshi_result.ok
    THEN add_position(ps, LegPosition(uid, "kalshi", KalshiEventId,
                                      args.opportunity.kalshi_action,
                                      args.amount, kalshi_result.val))
    ELSE ps

\* The ledger after the failure branch: the branch never touches the tracker.
failure_branch_positions(ps, pm_result, kalshi_result, args, uid) == ps

\* ==================================================== settlement_checker.rs
\* A faulty won: the position's outcome is ignored.
settlement_won_ignores_outcome(resolved_yes, outcome) == resolved_yes

\* won = (resolved_yes && outcome == "YES") || (!resolved_yes && outcome == "NO")
settlement_won(resolved_yes, outcome) ==
    (resolved_yes /\ outcome = "YES") \/ (~resolved_yes /\ outcome = "NO")

\* A faulty payout: a lost position is settled without a payout.
settlement_payout_none_when_lost(won, amount) ==
    IF won THEN Some(RMul(amount, ROne)) ELSE None

\* payout = Some(amount * 1.0) when won, Some(0.0) otherwise
settlement_payout(won, amount) == IF won THEN Some(RMul(amount, ROne)) ELSE Some(RZero)

\* The settlement query of one snapshot position: the venue's client for
\* "polymarket" and "kalshi", Ok(None) for any other platform.
settlement_query(platform, venues, reply) ==
    IF platform \in DOMAIN venues THEN check_settlement(venues[platform], reply)
    ELSE Ok(None)

\* A faulty match: a failed query ends the sweep (settlement_result?).
settlement_match_propagates(settlement_result) ==
    IF ~settlement_result.ok THEN "abort"
    ELSE IF IsSome(settlement_result.val) THEN "settle"
    ELSE "continue"

\* What the match on settlement_result does: "settle" on Ok(Some(_)),
\* "continue" on Ok(None) and on Err (which is only logged).
settlement_match(settlement_result) ==
    IF settlement_result.ok /\ IsSome(settlement_result.val) THEN "settle"
    ELSE "continue"

\* A faulty snapshot: the guard taken for it is kept by the sweep.
guard_kept_after_snapshot(s) == s

\* drop(tracker): the ledger's Mutex is free again after the snapshot.
guard_after_snapshot(s) == "free"

\* How a visited position's answer is classified in the sweep's log.
AnswerKind(settlement_result) ==
    IF ~settlement_result.ok THEN "error"
    ELSE IF IsSome(settlement_result.val) THEN "resolved" ELSE "unresolved"

\* =================================================================== state
Venues == {"polymarket", "kalshi"}
\* The check_settlements calls that can exist; main.rs runs one at a time.
Sweepers == {"sweep1", "sweep2"}
SingleFlight == {"sweep1"}

VARIABLES
    positions,      \* PositionTracker.positions: id -> Position
    guard,          \* holder of the ledger Mutex: "free", "exec" or a sweeper
    now,            \* Utc::now()
    nextUid,        \* uuids handed out so far
    hasTracker,     \* TradeExecutor.position_tracker is Some
    venue,          \* what each venue's settlement oracle answers now
    execPc,         \* position of the execute_arbitrage call
    execArgs,       \* its arguments: opportunity and amount
    pm_result,      \* None while the Polymarket leg is in flight
    kalshi_result,  \* None while the Kalshi leg is in flight
    execLedger,     \* ids in the ledger when the call started
    execRet,        \* the value the last call returned
    venueCalls,     \* the client methods the call has invoked, in order
    sweepPc,        \* position of each check_settlements call
    open_positions, \* its snapshot of the Open positions
    sweepTodo,      \* ids of the snapshot not yet visited
    sweepCur,       \* the position being visited
    settlement_result, \* the answer for sweepCur
    settled_count,  \* its counter
    sweepLog,       \* id -> kind of answer, for the positions visited
    sweepRet,       \* the value the last sweep returned
    settleRet,      \* what a direct update_position_settlement just returned
    lastStats,      \* what get_statistics just returned
    fnCall,         \* the last call of the detector, the matcher or the scan
    fnRet           \* and the value it returned

ledgerVars == <<positions, now, nextUid>>
execVars == <<execPc, execArgs, pm_result, kalshi_result, execLedger, execRet,
              venueCalls>>
sweepVars == <<sweepPc, open_positions, sweepTodo, sweepCur, settlement_result,
               settled_count, sweepLog, sweepRet>>
apiVars == <<settleRet, lastStats>>
pureVars == <<fnCall, fnRet>>
configVars == <<hasTracker>>
vars == <<positions, guard, now, nextUid, hasTracker, venue,
          execPc, execArgs, pm_result, kalshi_result, execLedger, execRet,
          sweepPc, open_positions, sweepTodo, sweepCur, settlement_result,
          settled_count, sweepLog, sweepRet, settleRet, lastStats,
          venueCalls, fnCall, fnRet>>

EmptyMap == [k \in {} |-> None]

\* No direct call of the ledger's API has just returned.
ApiIdle == settleRet' = None /\ lastStats' = None

Init ==
    /\ positions = EmptyMap
    /\ guard = "free"
    /\ now = 0
    /\ nextUid = 0
    /\ hasTracker = FALSE
    /\ venue = [v \in Venues |-> "live"]
    /\ execPc = "idle"
    /\ execArgs = None
    /\ pm_result = None
    /\ kalshi_result = None
    /\ execLedger = {}
    /\ execRet = None
    /\ sweepPc = [s \in Sweepers |-> "idle"]
    /\ open_positions = [s \in Sweepers |-> {}]
    /\ sweepTodo = [s \in Sweepers |-> {}]
    /\ sweepCur = [s \in Sweepers |-> None]
    /\ settlement_result = [s \in Sweepers |-> None]
    /\ settled_count = [s \in Sweepers |-> 0]
    /\ sweepLog = [s \in Sweepers |-> EmptyMap]
    /\ sweepRet = [s \in Sweepers |-> None]
    /\ settleRet = None
    /\ lastStats = None
    /\ venueCalls = <<>>
    /\ fnCall = None
    /\ fnRet = None

\* ------------------------------------------------------------ environment
\* Time passes.
Tick ==
    /\ now < MaxClock
    /\ now' = now + 1
    /\ UNCHANGED <<positions, nextUid, guard, venue>>
    /\ UNCHANGED <<execVars, sweepVars, configVars>>
    /\ ApiIdle
    /\ UNCHANGED pureVars

\* A venue settles its market for good.
VenueSettles ==
    /\ \E v \in Venues, a \in VenueStates \ {"live"} :
         /\ venue[v] = "live"
         /\ venue' = [venue EXCEPT ![v] = a]
    /\ UNCHANGED <<ledgerVars, guard, execVars, sweepVars, configVars>>
    /\ ApiIdle
    /\ UNCHANGED pureVars

\* ------------------------------------------------------ execute_arbitrage
\* TradeExecutor::new(..).with_position_tracker(tracker), before the executor
\* is put to use.
WithPositionTracker ==
    /\ execPc = "idle"
    /\ ~hasTracker
    /\ hasTracker' = TRUE
    /\ UNCHANGED <<ledgerVars, guard, venue, execVars, sweepVars>>
    /\ ApiIdle
    /\ UNCHANGED pureVars

\* The call starts and issues both legs (tokio::join!).
ExecStart ==
    /\ execPc \in {"idle", "done"}
    /\ nextUid + 2 <= MaxPositions
    /\ \E opp \in Opportunities, amount \in Notionals :
         execArgs' = Some([opportunity |-> opp, amount |-> amount])
    /\ execPc' = "legs"
    /\ pm_result' = None
    /\ kalshi_result' = None
    /\ execLedger' = DOMAIN positions
    /\ venueCalls' = join_calls
    /\ UNCHANGED <<execRet, ledgerVars, guard, venue, sweepVars, configVars>>
    /\ ApiIdle
    /\ UNCHANGED pureVars

\* The Polymarket leg completes.
PmLegDone ==
    /\ execPc = "legs"
    /\ IsNone(pm_result)
    /\ \E wallet \in BOOLEAN, blockchain \in PlacementReplies :
         pm_result' = Some(execute_polymarket_trade(
                             PolymarketPlaceOrder(wallet, blockchain)))
    /\ UNCHANGED <<execPc, execArgs, kalshi_result, execLedger, execRet, venueCalls>>
    /\ UNCHANGED <<ledgerVars, guard, venue, sweepVars, configVars>>
    /\ ApiIdle
    /\ UNCHANGED pureVars

\* The Kalshi leg completes.
KalshiLegDone ==
    /\ execPc = "legs"
    /\ IsNone(kalshi_result)
    /\ \E reply \in KalshiReplies :
         kalshi_result' = Some(execute_kalshi_trade(KalshiPlaceOrder(reply)))
    /\ UNCHANGED <<execPc, execArgs, pm_result, execLedger, execRet, venueCalls>>
    /\ UNCHANGED <<ledgerVars, guard, venue, sweepVars, configVars>>
    /\ ApiIdle
    /\ UNCHANGED pureVars

BothLegsDone == execPc = "legs" /\ IsSome(pm_result) /\ IsSome(kalshi_result)
BothLegsOk == pm_result.val.ok /\ kalshi_result.val.ok

\* At least one leg failed: the failure branch returns at once.
ExecFail ==
    /\ BothLegsDone
    /\ ~BothLegsOk
    /\ venueCalls' = venueCalls \o failure_branch_calls(pm_result.val, kalshi_result.val)
    /\ execRet' = Some(execute_arbitrage_return(pm_result.val, kalshi_result.val))
    /\ execPc' = "done"
    /\ positions' = failure_branch_positions(positions, pm_result.val, kalshi_result.val,
                                             execArgs.val, nextUid + 1)
    /\ UNCHANGED <<execArgs, pm_result, kalshi_result, execLedger>>
    /\ UNCHANGED <<now, nextUid, guard, venue, sweepVars, configVars>>
    /\ ApiIdle
    /\ UNCHANGED pureVars

\* Both legs succeeded and no tracker is attached.
ExecSuccessUntracked ==
    /\ BothLegsDone
    /\ BothLegsOk
    /\ ~hasTracker
    /\ execRet' = Some(execute_arbitrage_return(pm_result.val, kalshi_result.val))
    /\ execPc' = "done"
    /\ UNCHANGED <<execArgs, pm_result, kalshi_result, execLedger, venueCalls>>
    /\ UNCHANGED <<ledgerVars, guard, venue, sweepVars, configVars>>
    /\ ApiIdle
    /\ UNCHANGED pureVars

\* Both legs succeeded: tracker.lock().await
ExecLock ==
    /\ BothLegsDone
    /\ BothLegsOk
    /\ hasTracker
    /\ guard = "free"
    /\ guard' = "exec"
    /\ execPc' = "locked"
    /\ UNCHANGED <<execArgs, pm_result, kalshi_result, execLedger, execRet, venueCalls>>
    /\ UNCHANGED <<ledgerVars, venue, sweepVars, configVars>>
    /\ ApiIdle
    /\ UNCHANGED pureVars

\* tracker.add_position(pm_position)
ExecTrackPm ==
    /\ execPc = "locked"
    /\ LET a == execArgs.val
       IN  positions' = add_position(positions,
               LegPosition(nextUid + 1, "polymarket", PmEventId,
                           a.opportunity.polymarket_action, a.amount,
                           pm_result.val.val))
    /\ nextUid' = nextUid + 1
    /\ execPc' = "trackedPm"
    /\ guard' = guard_between_positions
    /\ UNCHANGED <<execArgs, pm_result, kalshi_result, execLedger, execRet, venueCalls>>
    /\ UNCHANGED <<now, venue, sweepVars, configVars>>
    /\ ApiIdle
    /\ UNCHANGED pureVars

\* tracker.add_position(kalshi_position); the guard is dropped and the
\* success result returned.
ExecTrackKalshi ==
    /\ execPc = "trackedPm"
    /\ LET a == execArgs.val
       IN  positions' = add_position(positions,
               LegPosition(nextUid + 1, "kalshi", KalshiEventId,
                           a.opportunity.kalshi_action, a.amount,
                           kalshi_result.val.val))
    /\ nextUid' = nextUid + 1
    /\ guard' = "free"
    /\ execRet' = Some(execute_arbitrage_return(pm_result.val, kalshi_result.val))
    /\ execPc' = "done"
    /\ UNCHANGED <<execArgs, pm_result, kalshi_result, execLedger, venueCalls>>
    /\ UNCHANGED <<now, venue, sweepVars, configVars>>
    /\ ApiIdle
    /\ UNCHANGED pureVars

\* ------------------------------------------------------ check_settlements
\* self.position_tracker.lock().await
SweepLock(s) ==
    /\ sweepPc[s] = "idle"
    /\ guard = "free"
    /\ guard' = s
    /\ sweepPc' = [sweepPc EXCEPT ![s] = "snapshot"]
    /\ sweepRet' = [sweepRet EXCEPT ![s] = None]
    /\ UNCHANGED <<open_positions, sweepTodo, sweepCur, settlement_result,
                   settled_count, sweepLog>>
    /\ UNCHANGED <<ledgerVars, venue, execVars, configVars>>
    /\ ApiIdle
    /\ UNCHANGED pureVars

\* open_positions = tracker.get_open_positions(); drop(tracker)
SweepSnapshot(s) ==
    /\ sweepPc[s] = "snapshot"
    /\ open_positions' = [open_positions EXCEPT
                            ![s] = {positions[k] : k \in get_open_positions(positions)}]
    /\ sweepTodo' = [sweepTodo EXCEPT ![s] = get_open_positions(positions)]
    /\ guard' = guard_after_snapshot(s)
    /\ sweepPc' = [sweepPc EXCEPT ![s] = "loop"]
    /\ UNCHANGED <<sweepCur, settlement_result, settled_count, sweepLog, sweepRet>>
    /\ UNCHANGED <<ledgerVars, venue, execVars, configVars>>
    /\ ApiIdle
    /\ UNCHANGED pureVars

\* The loop takes the next position of the snapshot (HashMap order) and
\* issues its settlement query.
SweepQuery(s) ==
    /\ sweepPc[s] = "loop"
    /\ \E p \in open_positions[s] :
         /\ p.id \in sweepTodo[s]
         /\ sweepCur' = [sweepCur EXCEPT ![s] = Some(p)]
         /\ sweepTodo' = [sweepTodo EXCEPT ![s] = @ \ {p.id}]
    /\ sweepPc' = [sweepPc EXCEPT ![s] = "query"]
    /\ UNCHANGED <<open_positions, settlement_result, settled_count, sweepLog, sweepRet>>
    /\ UNCHANGED <<ledgerVars, guard, venue, execVars, configVars>>
    /\ ApiIdle
    /\ UNCHANGED pureVars

\* The query completes; the match on settlement_result either goes on to
\* settle the position or continues with the next one.
SweepAnswer(s) ==
    /\ sweepPc[s] = "query"
    /\ \E reply \in SettlementReplies :
         LET p == sweepCur[s].val
             r == settlement_query(p.platform, venue, reply)
             m == settlement_match(r)
         IN  /\ settlement_result' = [settlement_result EXCEPT
                                       ![s] = IF m = "continue" THEN None ELSE Some(r)]
             /\ sweepCur' = [sweepCur EXCEPT ![s] = IF m = "continue" THEN None ELSE @]
             /\ sweepLog' = [sweepLog EXCEPT
                               ![s] = [k \in (DOMAIN @) \cup {p.id} |->
                                         IF k = p.id THEN AnswerKind(r) ELSE @[k]]]
             /\ sweepPc' = [sweepPc EXCEPT
                              ![s] = CASE m = "settle"   -> "settle"
                                       [] m = "continue" -> "loop"
                                       [] OTHER          -> "abort"]
    /\ UNCHANGED <<open_positions, sweepTodo, settled_count, sweepRet>>
    /\ UNCHANGED <<ledgerVars, guard, venue, execVars, configVars>>
    /\ ApiIdle
    /\ UNCHANGED pureVars

\* let mut tracker = self.position_tracker.lock().await
SweepSettleLock(s) ==
    /\ sweepPc[s] = "settle"
    /\ guard = "free"
    /\ guard' = s
    /\ sweepPc' = [sweepPc EXCEPT ![s] = "commit"]
    /\ UNCHANGED <<open_positions, sweepTodo, sweepCur, settlement_result,
                   settled_count, sweepLog, sweepRet>>
    /\ UNCHANGED <<ledgerVars, venue, execVars, configVars>>
    /\ ApiIdle
    /\ UNCHANGED pureVars

\* tracker.update_position_settlement(&position_id, won, payout); the counter
\* goes up when it returns Some; the guard is dropped at the end of the arm.
SweepCommit(s) ==
    /\ sweepPc[s] = "commit"
    /\ LET p == sweepCur[s].val
           won == settlement_won(settlement_result[s].val.val.val, p.outcome)
           u == update_position_settlement(positions, p.id, won,
                                           settlement_payout(won, p.amount), now)
       IN  /\ positions' = u.positions
           /\ settled_count' = [settled_count EXCEPT
                                  ![s] = IF IsSome(u.ret) THEN @ + 1 ELSE @]
    /\ guard' = "free"
    /\ sweepPc' = [sweepPc EXCEPT ![s] = "loop"]
    /\ sweepCur' = [sweepCur EXCEPT ![s] = None]
    /\ settlement_result' = [settlement_result EXCEPT ![s] = None]
    /\ UNCHANGED <<open_positions, sweepTodo, sweepLog, sweepRet>>
    /\ UNCHANGED <<now, nextUid, venue, execVars, configVars>>
    /\ ApiIdle
    /\ UNCHANGED pureVars

\* The loop is over: Ok(settled_count), and the call's locals are dropped.
\* (A sweep that stopped on an error would return it.)
SweepReturn(s) ==
    /\ \/ sweepPc[s] = "loop" /\ sweepTodo[s] = {}
          /\ sweepRet' = [sweepRet EXCEPT ![s] = Some(Ok(settled_count[s]))]
       \/ sweepPc[s] = "abort"
          /\ sweepRet' = [sweepRet EXCEPT ![s] = Some(Err(settlement_result[s].val.err))]
    /\ sweepPc' = [sweepPc EXCEPT ![s] = "idle"]
    /\ sweepCur' = [sweepCur EXCEPT ![s] = None]
    /\ settlement_result' = [settlement_result EXCEPT ![s] = None]
    /\ open_positions' = [open_positions EXCEPT ![s] = {}]
    /\ sweepTodo' = [sweepTodo EXCEPT ![s] = {}]
    /\ settled_count' = [settled_count EXCEPT ![s] = 0]
    /\ sweepLog' = [sweepLog EXCEPT ![s] = EmptyMap]
    /\ UNCHANGED <<ledgerVars, guard, venue, execVars, configVars>>
    /\ ApiIdle
    /\ UNCHANGED pureVars

\* ------------------------------------------- the ledger's API, called directly
\* The positions a caller adds: <<platform, event id, outcome>>, each with 250
\* shares bought for 100.
AddedPositions ==
    { <<"polymarket", PmEventId, "YES">>,
      <<"kalshi", KalshiEventId, "NO">>,
      <<"other", PmEventId, "YES">> }
AddedShares == RInt(250)
AddedCost == RInt(100)
\* The <<won, payout>> arguments a caller settles with.
SettleArgs == { <<TRUE, Some(AddedShares)>>, <<FALSE, Some(RZero)>> }
\* An id no position carries.
UnknownId == <<"polymarket", 0>>

\* tracker.lock().await.add_position(Position::new(..))
AddPosition ==
    /\ guard = "free"
    /\ nextUid < MaxPositions
    /\ \E a \in AddedPositions :
         positions' = add_position(positions,
               PositionNew(nextUid + 1, a[1], a[2], a[3], AddedShares, AddedCost,
                           RDiv(AddedCost, AddedShares), None))
    /\ nextUid' = nextUid + 1
    /\ ApiIdle
    /\ UNCHANGED pureVars
    /\ UNCHANGED <<now, guard, venue, execVars, sweepVars, configVars>>

\* tracker.lock().await.update_position_settlement(id, won, payout)
UpdatePositionSettlement(id, won, payout) ==
    /\ guard = "free"
    /\ LET u == update_position_settlement(positions, id, won, payout, now)
       IN  /\ positions' = u.positions
           /\ settleRet' = Some(u.ret)
    /\ lastStats' = None
    /\ UNCHANGED <<now, nextUid, guard, venue, execVars, sweepVars, configVars>>
    /\ UNCHANGED pureVars

DirectSettle ==
    \E id \in (DOMAIN positions) \cup {UnknownId}, a \in SettleArgs :
        UpdatePositionSettlement(id, a[1], a[2])

\* SettlementChecker::get_statistics: tracker.lock().await.get_statistics()
GetStatistics ==
    /\ guard = "free"
    /\ lastStats' = Some(get_statistics(positions))
    /\ settleRet' = None
    /\ UNCHANGED <<ledgerVars, guard, venue, execVars, sweepVars, configVars>>
    /\ UNCHANGED pureVars

\* ------------------------------------------------- the matcher, called directly
\* Titles: "BTC hit 100?", "btc  hit 100", "btc hit 100", "hit btc 100",
\* "eth hit 2025 now" and "xyz" (which shares no character with the others).
TitleBtcHit == <<"B", "T", "C", " ", "h", "i", "t", " ", "1", "0", "0", "?">>
TitleBtcHitSpaced == <<"b", "t", "c", " ", " ", "h", "i", "t", " ", "1", "0", "0">>
TitleBtcHitPlain == <<"b", "t", "c", " ", "h", "i", "t", " ", "1", "0", "0">>
TitleHitBtc == <<"h", "i", "t", " ", "b", "t", "c", " ", "1", "0", "0">>
TitleEth == <<"e", "t", "h", " ", "h", "i", "t", " ", "2", "0", "2", "5", " ", "n", "o", "w">>
TitleXyz == <<"x", "y", "z">>
Titles == {TitleBtcHit, TitleBtcHitSpaced, TitleHitBtc, TitleEth, TitleXyz}
Descriptions == {<<>>, <<"i", "n", " ", "2", "0", "2", "5">>}
\* Resolution dates in seconds: a day apart, and a second more than a day.
ResolutionDates == {None, Some(86400), Some(172800), Some(259201)}
\* Categories as the venues' JSON gives them: absent, a name in either
\* case, another name, or the empty string.
Categories ==
    { None, Some(<<"C", "r", "y", "p", "t", "o">>),
      Some(<<"c", "r", "y", "p", "t", "o">>), Some(<<"s", "p", "o", "r", "t", "s">>),
      Some(<<>>) }

\* The events calculate_similarity is called with.
EventUniverse ==
    { Event("any", "id", t, d, r, c) :
        t \in Titles, d \in Descriptions, r \in ResolutionDates, c \in Categories }

\* The venues' event lists: against PmBtc, KalshiBtc scores 1.0, KalshiPlain
\* exactly 0.75, KalshiSwapped below that and KalshiXyz 0.15 (the dates
\* only); PmXyz and KalshiPlain have nothing in common and score 0.
PmBtc == Event("polymarket", "pm-event", TitleBtcHit, <<>>, Some(86400),
               Some(<<"C", "r", "y", "p", "t", "o">>))
PmEth == Event("polymarket", "pm-eth", TitleEth, <<>>, Some(86400), None)
PmXyz == Event("polymarket", "pm-xyz", TitleXyz, <<>>, None, None)
KalshiBtc == Event("kalshi", "kalshi-event", TitleBtcHitSpaced, <<>>, Some(172800),
                   Some(<<"c", "r", "y", "p", "t", "o">>))
KalshiPlain == Event("kalshi", "kalshi-plain", TitleBtcHitPlain, <<>>, None, None)
KalshiSwapped == Event("kalshi", "kalshi-swapped", TitleHitBtc, <<>>, Some(86400), None)
KalshiXyz == Event("kalshi", "kalshi-xyz", TitleXyz, <<>>, Some(86400), None)
PmCatalogue == {PmBtc, PmEth, PmXyz}
KalshiCatalogue == {KalshiBtc, KalshiPlain, KalshiSwapped, KalshiXyz}

\* The lists of at most MaxEvents events of a catalogue.
EventLists(catalogue) == UNION {[1..n -> catalogue] : n \in 0..MaxEvents}

\* EventMatcher::new(similarity_threshold): 0.80 in main.rs, 0.75 and 0.0.
SimilarityThresholds == {Rat(80, 100), Rat(75, 100), RZero}

\* matcher.calculate_similarity_with_confidence(&event1, &event2)
CalculateSimilarity ==
    /\ IsNone(fnCall)
    /\ \E event1 \in EventUniverse, event2 \in EventUniverse :
         /\ fnCall' = Some([fn |-> "calculate_similarity",
                            event1 |-> event1, event2 |-> event2])
         /\ fnRet' = Some(calculate_similarity_with_confidence(event1, event2))
    /\ UNCHANGED <<ledgerVars, guard, venue, execVars, sweepVars, configVars>>
    /\ ApiIdle

\* matcher.find_matches(&polymarket_events, &kalshi_events)
FindMatches ==
    /\ IsNone(fnCall)
    /\ \E threshold \in SimilarityThresholds,
          polymarket_events \in EventLists(PmCatalogue),
          kalshi_events \in EventLists(KalshiCatalogue) :
         /\ fnCall' = Some([fn |-> "find_matches", similarity_threshold |-> threshold,
                            polymarket_events |-> polymarket_events,
                            kalshi_events |-> kalshi_events])
         /\ fnRet' = Some(find_matches(threshold, polymarket_events, kalshi_events))
    /\ UNCHANGED <<ledgerVars, guard, venue, execVars, sweepVars, configVars>>
    /\ ApiIdle

\* matcher.find_best_match(&target_event, &candidate_events)
FindBestMatch ==
    /\ IsNone(fnCall)
    /\ \E threshold \in SimilarityThresholds, target_event \in PmCatalogue,
          candidate_events \in EventLists(KalshiCatalogue) :
         /\ fnCall' = Some([fn |-> "find_best_match", similarity_threshold |-> threshold,
                            target_event |-> target_event,
                            candidate_events |-> candidate_events])
         /\ fnRet' = Some(find_best_match(threshold, target_event, candidate_events))
    /\ UNCHANGED <<ledgerVars, guard, venue, execVars, sweepVars, configVars>>
    /\ ApiIdle

\* --------------------------------------------------- the scan, called directly
\* A venue lists each of its events once.
DistinctEventLists(catalogue) ==
    {l \in EventLists(catalogue) : \A i \in 1..Len(l), j \in 1..Len(l) : l[i] = l[j] => i = j}

\* Filter configurations: main.rs's categories or none, 24 or 48 hours,
\* and a minimum liquidity of 100.0 (main.rs) or 0.0.
FilterConfigs ==
    { MarketFilters(c, h, l) :
        c \in { << <<"c", "r", "y", "p", "t", "o">>, <<"s", "p", "o", "r", "t", "s">> >>,
                <<>> },
        h \in {24, 48},
        l \in {RInt(100), RZero} }

\* What fetch_prices answers: the zero quote of a failed fetch and two
\* liquid quotes, one of them with exactly the liquidity main.rs asks for.
FailedFetchQuote == MarketPrices(RZero, RZero, RZero)
ScanQuotes ==
    { FailedFetchQuote,
      MarketPrices(Rat(59, 100), Rat(39, 100), RInt(1000)),
      MarketPrices(Rat(40, 100), Rat(58, 100), RInt(100)) }

\* ShortTermArbitrageBot::new(filters, 0.80, 0.02) in main.rs.
ScanThresholds == {Rat(80, 100)}

\* bot.scan_for_opportunities(&pm_events, &kalshi_events, fetch_prices)
ScanForOpportunities ==
    /\ IsNone(fnCall)
    /\ \E filters \in FilterConfigs, threshold \in ScanThresholds,
          pm_events \in DistinctEventLists(PmCatalogue),
          kalshi_events \in DistinctEventLists(KalshiCatalogue) :
         LET matches == scan_matches(filters, threshold, pm_events, kalshi_events, now)
         IN  \E quotes \in [1..Len(matches) -> ScanQuotes \X ScanQuotes] :
               /\ fnCall' = Some([fn |-> "scan_for_opportunities",
                                  filters |-> filters,
                                  similarity_threshold |-> threshold,
                                  pm_events |-> pm_events,
                                  kalshi_events |-> kalshi_events,
                                  matches |-> matches,
                                  quotes |-> quotes])
               /\ fnRet' = Some(scan_for_opportunities(filters, MinProfitThreshold,
                                                       matches, quotes))
    /\ UNCHANGED <<ledgerVars, guard, venue, execVars, sweepVars, configVars>>
    /\ ApiIdle

\* ------------------------------------------------ the detector, called directly
\* Prices in cents: 0 (the zero quote), the arbitrage scenario (0.40 + 0.39
\* and 0.30 + 0.30), a cost of 0.96 (0.48 + 0.48) and the efficient market
\* (0.52/0.49 against 0.51/0.50).
DetectorCents == {0, 30, 39, 40, 48, 49, 50, 51, 52}
\* (yes, no) quotes; a venue's two prices need not add up to 1.
DetectorQuotes ==
    { MarketPrices(Rat(y, 100), Rat(n, 100), RInt(1000)) :
        y \in DetectorCents, n \in DetectorCents }
\* ArbitrageDetector::new(threshold) with Fees::default(), or with_fees(..).
FeeSchedules ==
    { DefaultFees,
      [polymarket |-> RZero, kalshi |-> RZero],
      [polymarket |-> Rat(1, 100), kalshi |-> Rat(2, 100)] }
Thresholds == {MinProfitThreshold, RZero, Rat(5, 100)}

\* detector.check_arbitrage(&pm_prices, &kalshi_prices), called once per run
\* (the function keeps no state between calls).
CheckArbitrage ==
    /\ IsNone(fnCall)
    /\ \E fees \in FeeSchedules, threshold \in Thresholds,
          pm_prices \in DetectorQuotes, kalshi_prices \in DetectorQuotes :
         /\ fnCall' = Some([fn |-> "check_arbitrage", fees |-> fees,
                            min_profit_threshold |-> threshold,
                            pm_prices |-> pm_prices, kalshi_prices |-> kalshi_prices])
         /\ fnRet' = Some(check_arbitrage(fees, threshold, pm_prices, kalshi_prices))
    /\ UNCHANGED <<ledgerVars, guard, venue, execVars, sweepVars, configVars>>
    /\ ApiIdle

\* ----------------------------------------------------------- specifications
ExecStep ==
    \/ WithPositionTracker
    \/ ExecStart
    \/ PmLegDone
    \/ KalshiLegDone
    \/ ExecFail
    \/ ExecSuccessUntracked
    \/ ExecLock
    \/ ExecTrackPm
    \/ ExecTrackKalshi

SweepStep(s) ==
    \/ SweepLock(s)
    \/ SweepSnapshot(s)
    \/ SweepQuery(s)
    \/ SweepAnswer(s)
    \/ SweepSettleLock(s)
    \/ SweepCommit(s)
    \/ SweepReturn(s)

\* The bot: one coordinator and one reconciler sharing the ledger.
Next ==
    \/ ExecStep
    \/ \E s \in SingleFlight : SweepStep(s)

Spec == Init /\ [][Next]_vars

\* The ledger on its own, its API driven directly by a caller.
NextLedger ==
    \/ Tick
    \/ AddPosition
    \/ DirectSettle
    \/ GetStatistics

SpecLedger == Init /\ [][NextLedger]_vars

\* The ledger with its API driven directly while the reconciler sweeps it.
NextReconcile ==
    \/ AddPosition
    \/ DirectSettle
    \/ \E s \in SingleFlight : SweepStep(s)

SpecReconcile == Init /\ [][NextReconcile]_vars

\* The reconciler invoked again and again (main's settlement interval) while
\* positions are added and the venues settle their markets. A sweep that can
\* take a step does take it: it waits only for the ledger's lock, which
\* add_position holds for one step.
NextFair ==
    \/ AddPosition
    \/ VenueSettles
    \/ \E s \in SingleFlight : SweepStep(s)

SpecFair ==
    /\ Init
    /\ [][NextFair]_vars
    /\ \A s \in SingleFlight : WF_vars(SweepStep(s))

\* A settlement query against venues whose resolution is final: a venue
\* answers with a resolution only once it has settled its market, and then
\* with that resolution on every query.
SweepAnswerFinal(s) ==
    /\ SweepAnswer(s)
    /\ sweepPc'[s] = "settle" => venue[sweepCur[s].val.platform] # "live"

SweepStepFinal(s) ==
    \/ SweepLock(s)
    \/ SweepSnapshot(s)
    \/ SweepQuery(s)
    \/ SweepAnswerFinal(s)
    \/ SweepSettleLock(s)
    \/ SweepCommit(s)
    \/ SweepReturn(s)

\* The bot from order placement to settlement: the coordinator records a
\* hedge, the venues settle their markets, the reconciler sweeps.
NextHedge ==
    \/ ExecStep
    \/ VenueSettles
    \/ \E s \in SingleFlight : SweepStepFinal(s)

SpecHedge == Init /\ [][NextHedge]_vars

\* Two check_settlements calls on the same ledger, free to overlap, while
\* positions are added.
NextOverlap ==
    \/ AddPosition
    \/ \E s \in Sweepers : SweepStep(s)

SpecOverlap == Init /\ [][NextOverlap]_vars

\* The coordinator with the ledger's readers: a sweep and get_statistics.
NextObserve ==
    \/ GetStatistics
    \/ ExecStep
    \/ \E s \in SingleFlight : SweepStep(s)

SpecObserve == Init /\ [][NextObserve]_vars

\* The coordinator and the reconciler on a ledger that another caller adds
\* positions to.
NextPartial ==
    \/ AddPosition
    \/ ExecStep
    \/ \E s \in SingleFlight : SweepStep(s)

SpecPartial == Init /\ [][NextPartial]_vars

\* The reconciler sweeping the ledger while positions are added, statistics
\* are read and time passes.
NextOperate ==
    \/ Tick
    \/ AddPosition
    \/ GetStatistics
    \/ \E s \in SingleFlight : SweepStep(s)

SpecOperate == Init /\ [][NextOperate]_vars

\* The detector on its own, called with every combination of the quotes,
\* fee schedules and thresholds above.
NextDetector == CheckArbitrage

SpecDetector == Init /\ [][NextDetector]_vars

\* The matcher on its own: pair lists and best matches over the venues'
\* catalogues.
NextMatcher ==
    \/ FindMatches
    \/ FindBestMatch

SpecMatcher == Init /\ [][NextMatcher]_vars

\* One scan over the venues' event lists.
NextScan == ScanForOpportunities

SpecScan == Init /\ [][NextScan]_vars

\* The similarity of every ordered pair of events of EventUniverse.
NextSimilarity == CalculateSimilarity

SpecSimilarity == Init /\ [][NextSimilarity]_vars

\* ================================================================== claims
Terminal == {"Won", "Lost"}
TheSweep == "sweep1"

\* The step in which execute_arbitrage returns after tracking both positions.
ExecReturnsTracked == execPc = "trackedPm" /\ execPc' = "done"
\* The ids the ledger gained since the call started.
ExecGained == (DOMAIN positions') \ execLedger

C1_SuccessTracksTwoOpen ==
    [][ExecReturnsTracked =>
         /\ execRet'.val.ok
         /\ execRet'.val.val.success
         /\ IsNone(execRet'.val.val.error)
         /\ Cardinality(ExecGained) = 2
         /\ \A v \in Venues : \E k \in ExecGained : positions'[k].platform = v
         /\ \A k \in ExecGained : positions'[k].status = "Open"]_vars

ExecFailed == execPc = "done" /\ ~BothLegsOk

\* The error text that names exactly the failed legs.
ExpectedError ==
    CASE ~pm_result.val.ok /\ kalshi_result.val.ok ->
           "Polymarket: " \o pm_result.val.err
      [] pm_result.val.ok /\ ~kalshi_result.val.ok ->
           "Kalshi: " \o kalshi_result.val.err
      [] OTHER ->
           "Polymarket: " \o pm_result.val.err \o "; Kalshi: " \o kalshi_result.val.err

C2_FailureResultAndError ==
    ExecFailed =>
      /\ ~execRet.val.val.success
      /\ IsSome(execRet.val.val.polymarket_order_id) => pm_result.val.ok
      /\ IsSome(execRet.val.val.kalshi_order_id) => kalshi_result.val.ok
      /\ execRet.val.val.error = Some(ExpectedError)

C3_NeverErr ==
    execPc = "done" =>
      /\ execRet.val.ok
      /\ execRet.val.val.success <=> BothLegsOk
      /\ IsSome(execRet.val.val.error) <=> ~BothLegsOk

\* A call returned after both legs failed.
C3_Witness ==
    /\ execPc = "done"
    /\ ~pm_result.val.ok
    /\ ~kalshi_result.val.ok
    /\ execRet.val.ok

\* A direct update_position_settlement call whose id is unknown or names a
\* position that is already Won or Lost.
SettleOfMissingOrTerminal ==
    \E id \in (DOMAIN positions) \cup {UnknownId}, a \in SettleArgs :
        /\ UpdatePositionSettlement(id, a[1], a[2])
        /\ id \in DOMAIN positions => positions[id].status \in Terminal

\* C4: settling an unknown id or an already terminal position returns None
\* and leaves every position as it was.
C4_SettleMissingOrTerminal ==
    [][SettleOfMissingOrTerminal =>
         /\ settleRet' = Some(None)
         /\ positions' = positions]_vars

\* C4 for the unknown id alone.
C4_SettleUnknownId ==
    [][(\E a \in SettleArgs : UpdatePositionSettlement(UnknownId, a[1], a[2])) =>
         /\ settleRet' = Some(None)
         /\ positions' = positions]_vars

\* C5: a position that is Won or Lost stays in the ledger and never has
\* status Open again, whatever add_position, update_position_settlement or a
\* check_settlements sweep does next.
C5_TerminalNeverReopens ==
    [][\A k \in DOMAIN positions :
         positions[k].status \in Terminal =>
           /\ k \in DOMAIN positions'
           /\ positions'[k].status # "Open"]_vars

\* A position settled as Won was settled again, this time as Lost, by a
\* direct call (its payout is that of a loss, and the call returned a loss).
C5_Witness ==
    /\ settleRet = Some(Some(RNeg(AddedCost)))
    /\ \E k \in DOMAIN positions : positions[k].status = "Lost"
    /\ \E k \in DOMAIN positions : positions[k].status = "Won"

RECURSIVE ProfitsOf(_, _)
\* The profit fields that are present, added up over the ids of ks.
ProfitsOf(ps, ks) ==
    IF ks = {} THEN RZero
    ELSE LET k == CHOOSE x \in ks : TRUE
             rest == ProfitsOf(ps, ks \ {k})
         IN  IF IsSome(ps[k].profit) THEN RAdd(rest, ps[k].profit.val) ELSE rest

\* C6: get_statistics returns open + won + lost = total, and total_profit
\* equal to the sum of the profits that are present.
C6_Statistics ==
    IsSome(lastStats) =>
      LET st == lastStats.val
      IN  /\ st.total_positions = Cardinality(DOMAIN positions)
          /\ st.open_positions + st.won_positions + st.lost_positions
               = st.total_positions
          /\ st.total_profit = ProfitsOf(positions, DOMAIN positions)

\* Statistics taken of a ledger holding a Won and a Lost position.
C6_Witness ==
    /\ IsSome(lastStats)
    /\ lastStats.val.won_positions = 1
    /\ lastStats.val.lost_positions = 1
    /\ lastStats.val.total_profit = RInt(50)

\* The step in which a sweep commits the settlement of its current position.
SweepCommits(s) == sweepPc[s] = "commit" /\ sweepPc'[s] = "loop"

\* C7: a resolved answer for an Open position makes it Won when the venue
\* resolved to the position's outcome and Lost otherwise; Won pays the share
\* count with profit shares - cost, Lost pays 0 with profit -cost.
C7_SettlementOutcome ==
    [][\A s \in Sweepers :
         (SweepCommits(s) /\ positions[sweepCur[s].val.id].status = "Open") =>
           LET p == positions[sweepCur[s].val.id]
               q == positions'[sweepCur[s].val.id]
               resolved_yes == settlement_result[s].val.val.val
               expected ==
                 CASE p.outcome = "YES" /\ resolved_yes  -> "Won"
                   [] p.outcome = "YES" /\ ~resolved_yes -> "Lost"
                   [] p.outcome = "NO" /\ resolved_yes   -> "Lost"
                   [] p.outcome = "NO" /\ ~resolved_yes  -> "Won"
           IN  /\ q.status = expected
               /\ q.status = "Won" =>
                    /\ q.payout = Some(p.amount)
                    /\ q.profit = Some(RSub(p.amount, p.cost))
               /\ q.status = "Lost" =>
                    /\ q.payout = Some(RZero)
                    /\ q.profit = Some(RNeg(p.cost))]_vars

\* A NO position won (the venue resolved NO) and a YES position lost.
C7_Witness ==
    /\ \E k \in DOMAIN positions :
         positions[k].outcome = "NO" /\ positions[k].status = "Won"
    /\ \E k \in DOMAIN positions :
         positions[k].outcome = "YES" /\ positions[k].status = "Lost"

\* The step in which a sweep returns.
SweepReturns(s) == sweepPc[s] \in {"loop", "abort"} /\ sweepPc'[s] = "idle"

\* C8: a sweep returns the number of positions that were Open in its
\* snapshot and are Won or Lost when it returns; positions answered
\* unresolved or with an error are still Open and not counted, and the
\* snapshot holds no position that was terminal before the sweep.
C8_SweepCount ==
    [][\A s \in SingleFlight :
         SweepReturns(s) =>
           /\ \A p \in open_positions[s] : p.status = "Open"
           /\ sweepRet'[s] = Some(Ok(Cardinality(
                {p \in open_positions[s] : positions[p.id].status \in Terminal})))
           /\ \A p \in open_positions[s] :
                sweepLog[s][p.id] \in {"unresolved", "error"} =>
                  positions[p.id].status = "Open"]_vars

\* A sweep is about to return 1 having left another position of its snapshot Open.
C8_Witness ==
    /\ sweepPc[TheSweep] = "loop"
    /\ sweepTodo[TheSweep] = {}
    /\ settled_count[TheSweep] = 1
    /\ Cardinality(open_positions[TheSweep]) = 2

\* C9: a query that fails leaves its position Open with no payout or
\* profit, every position of the snapshot is still visited, those that got a
\* resolved answer are settled, and the sweep returns Ok with its count.
C9_QueryErrorSkipped ==
    [][\A s \in SingleFlight :
         SweepReturns(s) =>
           /\ sweepRet'[s].val.ok
           /\ sweepRet'[s].val.val = settled_count[s]
           /\ DOMAIN sweepLog[s] = {p.id : p \in open_positions[s]}
           /\ \A p \in open_positions[s] :
                /\ sweepLog[s][p.id] = "error" =>
                     /\ positions[p.id].status = "Open"
                     /\ IsNone(positions[p.id].payout)
                     /\ IsNone(positions[p.id].profit)
                /\ sweepLog[s][p.id] = "resolved" =>
                     positions[p.id].status \in Terminal]_vars

\* A sweep is about to return after one query failed and another position
\* of the same snapshot was settled.
C9_Witness ==
    /\ sweepPc[TheSweep] = "loop"
    /\ sweepTodo[TheSweep] = {}
    /\ \E k \in DOMAIN sweepLog[TheSweep] : sweepLog[TheSweep][k] = "error"
    /\ \E k \in DOMAIN sweepLog[TheSweep] : sweepLog[TheSweep][k] = "resolved"

\* The ids a position on one of the two venues can carry.
VenueIds == {<<v, u>> : v \in Venues, u \in 1..MaxPositions}

\* C10: with check_settlements invoked again and again, a position on
\* polymarket or kalshi whose venue answers resolved from some point on is
\* eventually Won or Lost, whatever earlier sweeps were answered; and each
\* sweep's snapshot takes in every position that is Open, those earlier
\* sweeps left unsettled included.
C10_EventuallySettled ==
    /\ \A k \in VenueIds :
         <>[](k \in DOMAIN positions /\ venue[k[1]] # "live")
           => <>(k \in DOMAIN positions /\ positions[k].status \in Terminal)
    /\ [][\A s \in SingleFlight :
            (sweepPc[s] = "snapshot" /\ sweepPc'[s] = "loop") =>
              sweepTodo'[s] = {k \in DOMAIN positions : positions[k].status = "Open"}]_vars

\* A sweep has returned having settled a kalshi position whose venue had
\* resolved, and a polymarket position is settled too.
C10_Witness ==
    /\ sweepRet[TheSweep] = Some(Ok(1))
    /\ venue["kalshi"] # "live"
    /\ \E k \in DOMAIN positions :
         k[1] = "kalshi" /\ positions[k].status \in Terminal
    /\ \E k \in DOMAIN positions :
         k[1] = "polymarket" /\ positions[k].status \in Terminal

\* ------------------------------------------------------------- C11 .. C13
\* A check_arbitrage call has returned.
Detected == IsSome(fnCall) /\ fnCall.val.fn = "check_arbitrage"
\* total_fees + min_profit_threshold of the call.
DetectorBar ==
    RAdd(RAdd(fnCall.val.fees.polymarket, fnCall.val.fees.kalshi),
         fnCall.val.min_profit_threshold)
\* 1 - cost of each strategy for the call's quotes.
Gross1 == RSub(ROne, RAdd(fnCall.val.kalshi_prices.yes, fnCall.val.pm_prices.no))
Gross2 == RSub(ROne, RAdd(fnCall.val.kalshi_prices.no, fnCall.val.pm_prices.yes))
Clears1 == RLess(DetectorBar, Gross1)
Clears2 == RLess(DetectorBar, Gross2)
IsStrategy1(o) ==
    /\ o.strategy = "Buy Yes on Kalshi + Buy No on Polymarket"
    /\ o.kalshi_action[2] = "YES"
    /\ o.polymarket_action[2] = "NO"
IsStrategy2(o) ==
    /\ o.strategy = "Buy No on Kalshi + Buy Yes on Polymarket"
    /\ o.kalshi_action[2] = "NO"
    /\ o.polymarket_action[2] = "YES"

\* C11: whenever Strategy 1 clears the bar the opportunity returned is
\* Strategy 1, also when Strategy 2 clears it with a higher profit; Strategy 2
\* is returned only when Strategy 1 does not clear the bar and Strategy 2 does.
C11_StrategyPriority ==
    Detected =>
      /\ Clears1 => (IsSome(fnRet.val) /\ IsStrategy1(fnRet.val.val))
      /\ (IsSome(fnRet.val) /\ IsStrategy2(fnRet.val.val)) => (~Clears1 /\ Clears2)

\* Both strategies clear the bar, Strategy 2 with the strictly higher profit,
\* and Strategy 1 came back.
C11_Witness ==
    /\ Detected
    /\ Clears1 /\ Clears2
    /\ RLess(Gross1, Gross2)
    /\ IsSome(fnRet.val)
    /\ IsStrategy1(fnRet.val.val)

\* The efficient-market quotes: kalshi (0.52, 0.49), polymarket (0.51, 0.50).
EfficientMarket ==
    /\ fnCall.val.kalshi_prices.yes = Rat(52, 100)
    /\ fnCall.val.kalshi_prices.no = Rat(49, 100)
    /\ fnCall.val.pm_prices.yes = Rat(51, 100)
    /\ fnCall.val.pm_prices.no = Rat(50, 100)

C13_OpportunityFields ==
    (Detected /\ IsSome(fnRet.val)) =>
      LET o == fnRet.val.val
          k == fnCall.val.kalshi_prices
          pm == fnCall.val.pm_prices
          fee == RAdd(fnCall.val.fees.polymarket, fnCall.val.fees.kalshi)
      IN  /\ IsStrategy1(o) \/ IsStrategy2(o)
          /\ IsStrategy1(o) =>
               /\ o.kalshi_action = <<"BUY", "YES", k.yes>>
               /\ o.polymarket_action = <<"BUY", "NO", pm.no>>
               /\ o.total_cost = RAdd(k.yes, pm.no)
          /\ IsStrategy2(o) =>
               /\ o.kalshi_action = <<"BUY", "NO", k.no>>
               /\ o.polymarket_action = <<"BUY", "YES", pm.yes>>
               /\ o.total_cost = RAdd(k.no, pm.yes)
          /\ {o.kalshi_action[2], o.polymarket_action[2]} = {"YES", "NO"}
          /\ o.total_cost = RAdd(o.kalshi_action[3], o.polymarket_action[3])
          /\ o.gross_profit = RSub(ROne, o.total_cost)
          /\ o.fees = fee
          /\ o.net_profit = RSub(o.gross_profit, fee)
          /\ o.roi_percent = RMul(RDiv(o.net_profit, o.total_cost), RInt(100))

\* kalshi.yes = 0.40 and pm.no = 0.39 under total fees of 0.02: cost 0.79,
\* gross 0.21, net 0.19.
C13_Witness ==
    /\ Detected
    /\ IsSome(fnRet.val)
    /\ fnRet.val.val.kalshi_action = <<"BUY", "YES", Rat(40, 100)>>
    /\ fnRet.val.val.polymarket_action = <<"BUY", "NO", Rat(39, 100)>>
    /\ fnRet.val.val.total_cost = Rat(79, 100)
    /\ fnRet.val.val.gross_profit = Rat(21, 100)
    /\ fnRet.val.val.fees = Rat(2, 100)
    /\ fnRet.val.val.net_profit = Rat(19, 100)

\* ------------------------------------------------------------- C14 .. C15
\* The ids execute_arbitrage adds in this step.
ExecAdds ==
    IF execPc \in {"locked", "trackedPm"}
    THEN (DOMAIN positions') \ (DOMAIN positions) ELSE {}
\* The leg of the call's opportunity that a position on platform v records.
LegOf(v) ==
    IF v = "polymarket" THEN execArgs.val.opportunity.polymarket_action
    ELSE execArgs.val.opportunity.kalshi_action

\* C14: a position recorded for a leg has amount = notional / leg price,
\* cost = the notional, and price = the leg's quoted price.
C14_LegPosition ==
    [][\A k \in ExecAdds :
         LET p == positions'[k]
         IN  /\ p.amount = RDiv(execArgs.val.amount, LegOf(p.platform)[3])
             /\ p.cost = execArgs.val.amount
             /\ p.price = LegOf(p.platform)[3]]_vars

\* C14 apart from the cost: share count, price and outcome of the leg.
C14_SharesAndPrice ==
    [][\A k \in ExecAdds :
         LET p == positions'[k]
         IN  /\ p.amount = RDiv(execArgs.val.amount, LegOf(p.platform)[3])
             /\ p.price = LegOf(p.platform)[3]
             /\ p.outcome = LegOf(p.platform)[2]]_vars

\* A recorded leg whose cost is notional * price and not the notional.
C14_Witness ==
    /\ execPc = "done"
    /\ \E k \in (DOMAIN positions) \ execLedger :
         /\ positions[k].cost = RMul(execArgs.val.amount, positions[k].price)
         /\ positions[k].cost # execArgs.val.amount

\* C15: when exactly one leg succeeded the call returns without invoking
\* cancel_order and without any further order: the two place_order calls of
\* the join are all it ever invoked.
C15_NoCompensation ==
    (execPc = "done" /\ pm_result.val.ok # kalshi_result.val.ok) =>
      /\ venueCalls = << <<"polymarket", "place_order">>, <<"kalshi", "place_order">> >>
      /\ \A i \in 1..Len(venueCalls) : venueCalls[i][2] # "cancel_order"
      /\ DOMAIN positions = execLedger

\* The call returned with the Polymarket leg filled and the Kalshi leg failed.
C15_Witness ==
    /\ execPc = "done"
    /\ pm_result.val.ok
    /\ ~kalshi_result.val.ok
    /\ ~execRet.val.val.success
    /\ IsSome(execRet.val.val.polymarket_order_id)


\* ---------------------------------------------------------------------- C16
\* How many entries of a list satisfy a test.
CountIn(list, Test(_)) == Cardinality({i \in 1..Len(list) : Test(list[i])})

FoundMatches == IsSome(fnCall) /\ fnCall.val.fn = "find_matches"

\* C16: find_matches returns exactly the pairs of the cross product of the
\* two lists whose overall score is at least the threshold (a pair scoring
\* exactly the threshold is returned), each with its score, and the list is
\* ordered by score, highest first.
C16_MatchesFilteredAndSorted ==
    FoundMatches =>
      LET call == fnCall.val
          matches == fnRet.val
      IN  /\ \A pm_event \in PmCatalogue, kalshi_event \in KalshiCatalogue :
               LET score == calculate_similarity(pm_event, kalshi_event)
                   pairs == CountIn(call.polymarket_events, LAMBDA e : e = pm_event)
                            * CountIn(call.kalshi_events, LAMBDA e : e = kalshi_event)
               IN  CountIn(matches, LAMBDA t : t = <<pm_event, kalshi_event, score>>)
                     = IF ~RLess(score, call.similarity_threshold) THEN pairs ELSE 0
          /\ \A i \in 1..Len(matches) :
               /\ matches[i][1] \in PmCatalogue
               /\ matches[i][2] \in KalshiCatalogue
               /\ matches[i][3] = calculate_similarity(matches[i][1], matches[i][2])
          /\ \A i \in 1..Len(matches), j \in 1..Len(matches) :
               i < j => ~RLess(matches[i][3], matches[j][3])

\* Of four pairs two are returned: the one scoring 1.0 ahead of the one
\* scoring exactly the threshold 0.75, although the loop met them in the
\* other order.
C16_Witness ==
    /\ FoundMatches
    /\ fnCall.val.similarity_threshold = Rat(75, 100)
    /\ fnCall.val.polymarket_events = <<PmXyz, PmBtc>>
    /\ fnCall.val.kalshi_events = <<KalshiPlain, KalshiBtc>>
    /\ fnRet.val = << <<PmBtc, KalshiBtc, ROne>>, <<PmBtc, KalshiPlain, Rat(75, 100)>> >>

\* ---------------------------------------------------------------------- C17
ComparedEvents == IsSome(fnCall) /\ fnCall.val.fn = "calculate_similarity"

FoundBest == IsSome(fnCall) /\ fnCall.val.fn = "find_best_match"

\* The candidates' scores against the target, and the candidates that reach
\* the threshold.
CandidateScore(i) ==
    calculate_similarity(fnCall.val.target_event, fnCall.val.candidate_events[i])
Qualifying ==
    {i \in 1..Len(fnCall.val.candidate_events) :
       ~RLess(CandidateScore(i), fnCall.val.similarity_threshold)}

\* The result is a candidate of maximal score together with that score.
ReturnsTheBest ==
    /\ IsSome(fnRet.val)
    /\ \E i \in 1..Len(fnCall.val.candidate_events) :
         /\ fnRet.val.val = <<fnCall.val.candidate_events[i], CandidateScore(i)>>
         /\ \A j \in 1..Len(fnCall.val.candidate_events) :
              ~RLess(CandidateScore(i), CandidateScore(j))

\* C18: find_best_match returns the candidate with the maximal score and
\* that score whenever the maximal score is at least the threshold, and
\* none only when no candidate scores at least the threshold.
C18_BestMatchAtThreshold ==
    FoundBest => IF Qualifying # {} THEN ReturnsTheBest ELSE IsNone(fnRet.val)

\* The same when some candidate scores above 0.0, or none reaches the
\* threshold.
C18_BestMatchAboveZero ==
    FoundBest /\ (Qualifying = {} \/ \E i \in Qualifying : RLess(RZero, CandidateScore(i)))
      => IF Qualifying # {} THEN ReturnsTheBest ELSE IsNone(fnRet.val)

\* Threshold 0.0 and one candidate scoring 0.0: the candidate reaches the
\* threshold and nothing is returned.
C18_Witness ==
    /\ FoundBest
    /\ fnCall.val.similarity_threshold = RZero
    /\ fnCall.val.target_event = PmXyz
    /\ fnCall.val.candidate_events = <<KalshiPlain>>
    /\ CandidateScore(1) = RZero
    /\ IsNone(fnRet.val)

\* ---------------------------------------------------------------------- C19
Scanned == IsSome(fnCall) /\ fnCall.val.fn = "scan_for_opportunities"

\* The i-th matched pair got the zero quote for one of its venues.
FetchFailed(i) ==
    \/ fnCall.val.quotes[i][1] = FailedFetchQuote
    \/ fnCall.val.quotes[i][2] = FailedFetchQuote

\* The scan result holds an opportunity for the i-th matched pair.
Reported(i) ==
    \E k \in 1..Len(fnRet.val) :
       /\ fnRet.val[k][1] = fnCall.val.matches[i][1]
       /\ fnRet.val[k][2] = fnCall.val.matches[i][2]

\* C19: under any filter configuration, a matched pair for which either
\* venue's fetch gave the zero quote is excluded by the liquidity check: the
\* scan result, always a list, holds no opportunity for it.
C19_ZeroQuoteExcluded ==
    Scanned =>
      /\ DOMAIN fnRet.val = 1..Len(fnRet.val)
      /\ \A i \in 1..Len(fnCall.val.matches) : FetchFailed(i) => ~Reported(i)

\* The same under a filter configuration with a positive minimum liquidity.
C19_ZeroQuoteExcludedAboveZero ==
    Scanned /\ RLess(RZero, fnCall.val.filters.min_liquidity) =>
      /\ DOMAIN fnRet.val = 1..Len(fnRet.val)
      /\ \A i \in 1..Len(fnCall.val.matches) : FetchFailed(i) => ~Reported(i)

\* min_liquidity 0.0: the Polymarket fetch failed, the Kalshi quote is
\* 0.40/0.58, and the pair is reported as an opportunity.
C19_Witness ==
    /\ Scanned
    /\ fnCall.val.filters.min_liquidity = RZero
    /\ Len(fnCall.val.matches) = 1
    /\ fnCall.val.quotes[1][1] = FailedFetchQuote
    /\ fnCall.val.quotes[1][2] = MarketPrices(Rat(40, 100), Rat(58, 100), RInt(100))
    /\ Len(fnRet.val) = 1
    /\ Reported(1)
    /\ fnRet.val[1][3].total_cost = Rat(40, 100)

\* ---------------------------------------------------------------------- C20
\* A leg of the running call has not completed yet.
LegInFlight == execPc = "legs" /\ (IsNone(pm_result) \/ IsNone(kalshi_result))

\* Both venues' place_order calls have been issued.
BothLegsIssued ==
    \A v \in {"polymarket", "kalshi"} :
       \E i \in 1..Len(venueCalls) : venueCalls[i] = <<v, "place_order">>

\* C20: within one execute_arbitrage call both legs are issued before either
\* result is looked at, and while a leg is still in flight the call neither
\* returns a TradeResult nor adds a position; the classification waits for
\* both results, whichever leg completes first.
C20_ClassifiedAfterBothLegs ==
    /\ [](execPc = "legs" => BothLegsIssued)
    /\ [][LegInFlight =>
            /\ execPc' = "legs"
            /\ execRet' = execRet
            /\ DOMAIN positions' = DOMAIN positions]_vars
    /\ [][execPc = "legs" /\ execPc' # "legs" =>
            IsSome(pm_result) /\ IsSome(kalshi_result)]_vars

\* The Kalshi leg, issued second, has completed while the Polymarket leg is
\* still in flight; nothing has been recorded for the call.
C20_Witness ==
    /\ execPc = "legs"
    /\ hasTracker
    /\ IsSome(kalshi_result)
    /\ kalshi_result.val.ok
    /\ IsNone(pm_result)
    /\ BothLegsIssued
    /\ DOMAIN positions = execLedger

\* ---------------------------------------------------------------------- C21
\* C21: the ledger's guard is never held while a venue call is in flight: a
\* sweep holds it only to take its snapshot and to commit one settlement,
\* never while a settlement query is out, and execute_arbitrage holds it only
\* after both order placements have completed.
C21_GuardNotHeldAcrossCalls ==
    /\ execPc = "legs" => guard # "exec"
    /\ guard = "exec" =>
         /\ execPc \in {"locked", "trackedPm"}
         /\ IsSome(pm_result) /\ IsSome(kalshi_result)
    /\ \A s \in Sweepers :
         /\ sweepPc[s] \in {"loop", "query", "settle", "idle", "abort"} => guard # s
         /\ guard = s => sweepPc[s] \in {"snapshot", "commit"}

\* A sweep has committed one settlement and its next query is in flight with
\* the guard free.
C21_Witness ==
    /\ sweepPc[TheSweep] = "query"
    /\ settled_count[TheSweep] = 1
    /\ guard = "free"
    /\ \E k \in DOMAIN positions : positions[k].status \in Terminal

\* ---------------------------------------------------------------------- C22
\* The step commits a resolved venue answer for position k.
CommitsResolved(k) ==
    \E s \in Sweepers :
       /\ SweepCommits(s)
       /\ sweepCur[s].val.id = k
       /\ settlement_result[s].val.ok
       /\ IsSome(settlement_result[s].val.val)
       /\ sweepLog[s][k] = "resolved"

\* C22: an Open position changes only in the step that commits a resolved
\* venue answer for it; an unresolved answer, the adding of another position,
\* the snapshot, the statistics and the passing of time leave it in the
\* ledger exactly as it was, so it stays Open until it is reported resolved.
C22_OpenUntilResolved ==
    [][\A k \in DOMAIN positions :
         positions[k].status = "Open" =>
           /\ k \in DOMAIN positions'
           /\ (positions'[k] # positions[k] =>
                 CommitsResolved(k) /\ positions'[k].status \in Terminal)]_vars

\* A position is still Open, untouched, after a sweep got an unresolved
\* answer for it, another position was added and time has passed.
C22_Witness ==
    /\ now = MaxClock
    /\ Cardinality(DOMAIN positions) = 2
    /\ \E k \in DOMAIN positions :
         /\ k \in DOMAIN sweepLog[TheSweep]
         /\ sweepLog[TheSweep][k] = "unresolved"
         /\ positions[k].status = "Open"
         /\ IsNone(positions[k].payout) /\ IsNone(positions[k].profit)
         /\ IsNone(positions[k].settled_at)
         /\ \E j \in DOMAIN positions : j[2] > k[2]

\* ---------------------------------------------------------------------- C23
\* How many place_order requests the running call has sent to venue v.
OrdersPlaced(v) ==
    Cardinality({i \in 1..Len(venueCalls) : venueCalls[i] = <<v, "place_order">>})

\* C23: within one execute_arbitrage call each venue gets exactly one
\* place_order request; the result of a leg, once it is in, is final for the
\* call (a failed leg is not tried again), and a call that returns
\* success=false has ended with those two requests.
C23_OneOrderPerVenue ==
    /\ [](execPc # "idle" => \A v \in Venues : OrdersPlaced(v) = 1)
    /\ [](execPc = "done" /\ ~execRet.val.val.success =>
            /\ Len(venueCalls) = 2
            /\ ~pm_result.val.ok \/ ~kalshi_result.val.ok)
    /\ [][execPc = "legs" \/ (execPc # "idle" /\ execPc' # "legs") =>
            /\ IsSome(pm_result) => pm_result' = pm_result
            /\ IsSome(kalshi_result) => kalshi_result' = kalshi_result]_vars

\* A call has returned success=false with both legs failed.
C23_Witness ==
    /\ execPc = "done"
    /\ ~pm_result.val.ok
    /\ ~kalshi_result.val.ok
    /\ ~execRet.val.val.success
    /\ OrdersPlaced("polymarket") = 1
    /\ OrdersPlaced("kalshi") = 1

\* ---------------------------------------------------------------------- C24
\* Both events carry a non-empty category and the two are equal ignoring case.
SameNonEmptyCategory(event1, event2) ==
    /\ IsSome(event1.category) /\ event1.category.val # <<>>
    /\ IsSome(event2.category) /\ event2.category.val # <<>>
    /\ to_lowercase(event1.category.val) = to_lowercase(event2.category.val)

\* The overall score built from the returned components with the 0.1 of the
\* category counted only when category_matches.
ScoreWithCategory(c, category_matches) ==
    RAdd(RAdd(RAdd(RAdd(RMul(c.text_similarity, Rat(4, 10)),
                        RMul(c.keyword_overlap, Rat(25, 100))),
                   IF c.date_match THEN Rat(15, 100) ELSE RZero),
              IF category_matches THEN Rat(1, 10) ELSE RZero),
         IF c.number_match THEN Rat(1, 10) ELSE RZero)

\* C24: category_match is true exactly when both events carry a non-empty
\* category and the two are equal ignoring case; otherwise, in particular
\* for two empty categories, it is false and the score gets no 0.1 for it.
C24_CategoryMatch ==
    ComparedEvents =>
      LET same == SameNonEmptyCategory(fnCall.val.event1, fnCall.val.event2)
      IN  /\ fnRet.val.category_match = same
          /\ fnRet.val.overall_score = ScoreWithCategory(fnRet.val, same)

\* The same for events whose category, when present, is not empty.
C24_CategoryMatchNonEmpty ==
    (/\ ComparedEvents
     /\ fnCall.val.event1.category # Some(<<>>)
     /\ fnCall.val.event2.category # Some(<<>>)) =>
      LET same == SameNonEmptyCategory(fnCall.val.event1, fnCall.val.event2)
      IN  /\ fnRet.val.category_match = same
          /\ fnRet.val.overall_score = ScoreWithCategory(fnRet.val, same)

\* Two events that both carry the empty string as category: they
\* category-match and the score holds the 0.1 of the category.
C24_Witness ==
    /\ ComparedEvents
    /\ fnCall.val.event1.category = Some(<<>>)
    /\ fnCall.val.event2.category = Some(<<>>)
    /\ fnCall.val.event1.title = TitleXyz
    /\ fnCall.val.event2.title = TitleBtcHit
    /\ IsNone(fnCall.val.event1.resolution_date)
    /\ fnRet.val.category_match
    /\ fnRet.val.overall_score = Rat(1, 10)

\* ---------------------------------------------------------------------- C25
\* A step of the execute_arbitrage call.
ExecMoves == execPc' # execPc \/ pm_result' # pm_result \/ kalshi_result' # kalshi_result

\* A position the ledger got from a caller of add_position, not from a leg.
AddedByCaller(p) == p.order_id = None /\ p.amount = AddedShares /\ p.cost = AddedCost

\* C25: when a leg fails the call leaves the ledger as it found it: the
\* tracker is written only by a call whose two legs both succeeded, a failed
\* call has added no position, not even for a leg that was filled, and a
\* sweep visits ledger positions only, so never the filled leg.
C25_FailureLeavesLedger ==
    /\ [](execPc \in {"locked", "trackedPm"} => BothLegsOk)
    /\ [][ExecMoves /\ execPc \in {"idle", "legs", "done"} => positions' = positions]_vars
    /\ [](ExecFailed =>
            /\ \A k \in (DOMAIN positions) \ execLedger : AddedByCaller(positions[k])
            /\ \A s \in Sweepers :
                 /\ \A p \in open_positions[s] : p.id \in DOMAIN positions
                 /\ IsSome(sweepCur[s]) => AddedByCaller(sweepCur[s].val))

\* A call with a tracker has returned with its Polymarket leg filled and its
\* Kalshi leg failed, on a ledger holding a caller's position that a sweep
\* is visiting; the ledger holds nothing else.
C25_Witness ==
    /\ ExecFailed
    /\ hasTracker
    /\ pm_result.val.ok /\ IsSome(pm_result.val.val)
    /\ ~kalshi_result.val.ok
    /\ Cardinality(DOMAIN positions) = 1
    /\ IsSome(sweepCur[TheSweep])
    /\ \A k \in DOMAIN positions : AddedByCaller(positions[k])

\* ---------------------------------------------------------------------- C26
\* The positions the ledger has gained since the call started.
CallPositions == (DOMAIN positions) \ execLedger

\* C26: the two positions of a successful call go into the ledger within one
\* acquisition of the guard: whenever the guard is not the call's, when a
\* sweep takes its snapshot and in whatever get_statistics returns, the
\* ledger holds both positions of the call or neither.
C26_BothOrNeither ==
    /\ [](guard # "exec" => Cardinality(CallPositions) \in {0, 2})
    /\ [](Cardinality(CallPositions) = 1 => guard = "exec" /\ execPc = "trackedPm")
    /\ [][\A s \in Sweepers :
            sweepPc[s] = "snapshot" /\ sweepPc'[s] = "loop" =>
              Cardinality(CallPositions) \in {0, 2}]_vars
    /\ [](IsSome(lastStats) =>
            lastStats.val.total_positions - Cardinality(execLedger) \in {0, 2})

\* The call has added its first position and holds the guard while a sweep
\* waits for it.
C26_Witness ==
    /\ execPc = "trackedPm"
    /\ Cardinality(CallPositions) = 1
    /\ guard = "exec"
    /\ sweepPc[TheSweep] = "idle"
    /\ IsNone(lastStats)

\* ---------------------------------------------------------------------- C27
RECURSIVE CountedBy(_)
\* The settlements the running sweeps of a set have counted so far.
CountedBy(ss) ==
    IF ss = {} THEN 0
    ELSE LET s == CHOOSE x \in ss : TRUE
         IN  settled_count[s] + CountedBy(ss \ {s})

\* C27: also when sweeps overlap, a position is moved to a terminal status
\* at most once (a commit finds its position Open) and is counted by at most
\* one sweep, so the sweeps together never count more settlements than there
\* are Won and Lost positions.
C27_SettledOnceCountedOnce ==
    /\ [][\A s \in Sweepers :
            SweepCommits(s) => positions[sweepCur[s].val.id].status = "Open"]_vars
    /\ [](CountedBy(Sweepers) <= CountStatus(positions, "Won") + CountStatus(positions, "Lost"))

\* Both sweeps took the ledger's one Open position into their snapshots and
\* each has counted its settlement.
C27_Witness ==
    /\ Cardinality(DOMAIN positions) = 1
    /\ \A k \in DOMAIN positions : positions[k].status \in Terminal
    /\ \A s \in Sweepers : settled_count[s] = 1 /\ sweepPc[s] = "loop"

\* ---------------------------------------------------------------------- C28
\* The resolution a settled venue reports.
ResolvedYes(v) == venue[v] = "yes"

\* C28: the two positions of one successful call, settled by venues that
\* report the same resolution, end as one Won and one Lost, whichever the
\* resolution and whichever the strategy. (Each settlement is committed with
\* the resolution its venue reports.)
C28_OneWonOneLost ==
    /\ [][\A s \in Sweepers :
            SweepCommits(s) =>
              /\ venue[sweepCur[s].val.platform] # "live"
              /\ settlement_result[s].val.val.val = ResolvedYes(sweepCur[s].val.platform)]_vars
    /\ []((/\ Cardinality(CallPositions) = 2
           /\ \A k \in CallPositions : positions[k].status \in Terminal
           /\ venue["polymarket"] # "live"
           /\ venue["polymarket"] = venue["kalshi"])
          => /\ Cardinality({k \in CallPositions : positions[k].status = "Won"}) = 1
             /\ Cardinality({k \in CallPositions : positions[k].status = "Lost"}) = 1)

\* Both positions of a "Buy PM NO + Kalshi YES" call are settled after both
\* venues resolved NO.
C28_Witness ==
    /\ Cardinality(CallPositions) = 2
    /\ \A k \in CallPositions : positions[k].status \in Terminal
    /\ venue["polymarket"] = "no" /\ venue["kalshi"] = "no"
    /\ \E k \in CallPositions :
         positions[k].platform = "polymarket" /\ positions[k].outcome = "NO"

\* ---------------------------------------------------------------------- C29
\* A position without any settlement data, and one with all of it: the
\* timestamp, the payout and the profit.
Unsettled(p) == IsNone(p.settled_at) /\ IsNone(p.payout) /\ IsNone(p.profit)
FullySettled(p) == IsSome(p.settled_at) /\ IsSome(p.payout) /\ IsSome(p.profit)

\* C29: in every state of the ledger a position is Open exactly when it has
\* no settlement timestamp, payout or profit, and Won or Lost exactly when
\* it has all three; no position is ever Settled; a position enters the
\* ledger Open.
C29_StatusMatchesData ==
    /\ [](\A k \in DOMAIN positions :
            LET p == positions[k]
            IN  /\ p.status \in {"Open", "Won", "Lost"}
                /\ p.status = "Open" <=> Unsettled(p)
                /\ p.status \in Terminal <=> FullySettled(p))
    /\ [][\A k \in (DOMAIN positions') \ (DOMAIN positions) :
            positions'[k].status = "Open"]_vars

\* The ledger holds an Open position next to one a sweep has settled as
\* Lost, with payout 0.
C29_Witness ==
    /\ \E k \in DOMAIN positions : positions[k].status = "Open"
    /\ \E k \in DOMAIN positions :
         /\ positions[k].status = "Lost"
         /\ positions[k].payout = Some(RZero)
    /\ settled_count[TheSweep] = 1

\* ---------------------------------------------------------------------- C30
\* C30: once both positions of a successful call are settled by venues that
\* report the same resolution, the realized profits of the two positions
\* add up to more than zero, whichever outcome resolved.
C30_HedgeProfitPositive ==
    (/\ Cardinality(CallPositions) = 2
     /\ \A k \in CallPositions : positions[k].status \in Terminal
     /\ venue["polymarket"] # "live"
     /\ venue["polymarket"] = venue["kalshi"])
    => /\ RLess(RZero, SumProfit(positions, CallPositions))
       /\ CallPositions = DOMAIN positions =>
            get_total_profit(positions) = SumProfit(positions, CallPositions)

\* Both positions of a call with notional 100 are settled after both venues
\* resolved YES; the realized profits add up.
C30_Witness ==
    /\ Cardinality(CallPositions) = 2
    /\ \A k \in CallPositions : positions[k].status \in Terminal
    /\ venue["polymarket"] = "yes" /\ venue["kalshi"] = "yes"
    /\ execArgs.val.amount = RInt(100)
    /\ RLess(RZero, get_total_profit(positions))

\* The ledger after a sweep settled position id with the resolution a venue
\* reports.
SettledWith(ps, id, resolved_yes) ==
    LET won == settlement_won(resolved_yes, ps[id].outcome)
    IN  update_position_settlement(ps, id, won,
                                   settlement_payout(won, ps[id].amount), 0).positions

\* The total realized profit of the two positions execute_arbitrage records
\* for an opportunity, after both are settled with one resolution.
HedgeProfit(opportunity, amount, resolved_yes) ==
    LET pm == LegPosition(1, "polymarket", PmEventId,
                          opportunity.polymarket_action, amount, None)
        k  == LegPosition(2, "kalshi", KalshiEventId,
                          opportunity.kalshi_action, amount, None)
        ledger == add_position(add_position(EmptyMap, pm), k)
    IN  get_total_profit(SettledWith(SettledWith(ledger, pm.id, resolved_yes),
                                     k.id, resolved_yes))

\* For every opportunity check_arbitrage returns on prices above zero, under
\* every fee schedule and threshold, the hedge's total realized profit is
\* positive for either resolution.
C30_AnyOpportunity ==
    (/\ IsSome(fnCall) /\ fnCall.val.fn = "check_arbitrage"
     /\ IsSome(fnRet.val)
     /\ RLess(RZero, fnRet.val.val.polymarket_action[3])
     /\ RLess(RZero, fnRet.val.val.kalshi_action[3]))
    => \A amount \in Notionals, resolved_yes \in BOOLEAN :
         RLess(RZero, HedgeProfit(fnRet.val.val, amount, resolved_yes))
====
